---------------------------- MODULE Spec2Model ----------------------------
(***************************************************************************)
(* RSS-AI backend (backend/app/main.py, backend/app/wecom_client.py).      *)
(*                                                                         *)
(* The module models the HTTP API and lifecycle coordinator: the settings  *)
(* endpoints (get_settings, update_settings), the scheduler lifecycle      *)
(* (on_startup, on_shutdown, _configure_report_schedulers) and the fetch   *)
(* pipeline do_fetch_once, run by two overlapping callers (the scheduler   *)
(* tick and POST /api/fetch).                                              *)
(*                                                                         *)
(* Text that the code trims, measures or searches (passwords, prompts,     *)
(* keywords, titles) is a sequence of one-character strings; text that the *)
(* code only compares or tests for emptiness (secrets, push modes) is a    *)
(* TLA+ string.                                                            *)
(***************************************************************************)
EXTENDS Integers, Sequences, FiniteSets, TLC

VARIABLES
    stored,              \* the persisted settings document (config store)
    _scheduler,          \* main._scheduler: the fetch scheduler or None
    _report_schedulers,  \* main._report_schedulers: report type -> scheduler id
    aligned,             \* the AlignedScheduler objects that are registered or started
    phase,               \* process lifecycle: "init", "running", "stopped"
    shutdowns,           \* outcome of the on_shutdown calls made so far
    req,                 \* the HTTP settings requests in flight, per worker thread
    articles,            \* the articles table, in creation order
    cyc,                 \* the do_fetch_once invocations, per caller
    pushed,              \* article notices sent, per (feed_url, item_uid) and platform
    inserts,             \* successful insert_article calls, per (feed_url, item_uid)
    call,                \* a call of a helper or of a report endpoint: arguments, result
    reports              \* the reports table and the last id that it gave out

vars == <<stored, _scheduler, _report_schedulers, aligned, phase, shutdowns,
          req, articles, cyc, pushed, inserts, call, reports>>

settingsVars == <<stored, _scheduler, _report_schedulers, aligned, phase, shutdowns, req>>
fetchVars == <<articles, cyc, pushed, inserts>>
callVars == <<call, reports>>

-----------------------------------------------------------------------------
(* Bounds of the model *)

\* do_fetch_once invocations of a caller, one after the other
MaxRuns == 2

\* do_fetch_once invocations of each of two overlapping callers
MaxOverlapRuns == 1

\* AlignedScheduler objects alive at once
MaxAligned == 3

-----------------------------------------------------------------------------
(* Python text operations *)

WS == {" ", "\n"}

DIGITS == {"0", "1", "2", "3", "4", "5", "6", "7", "8", "9"}

RECURSIVE lstrip(_)
lstrip(s) ==
    IF s # <<>> /\ Head(s) \in WS THEN lstrip(Tail(s)) ELSE s

RECURSIVE rstrip(_)
rstrip(s) ==
    IF s # <<>> /\ s[Len(s)] \in WS THEN rstrip(SubSeq(s, 1, Len(s) - 1)) ELSE s

\* str.strip()
strip(s) == rstrip(lstrip(s))

\* str.isdigit(): non-empty and every character a digit
isdigit(s) == s # <<>> /\ \A i \in 1..Len(s) : s[i] \in DIGITS

\* `needle in haystack` for str
contains(hay, needle) ==
    \E i \in 0..(Len(hay) - Len(needle)) :
        \A j \in 1..Len(needle) : hay[i + j] = needle[j]

\* the `not (x and x.strip())` test of get_settings and update_settings
is_blank(s) == ~(s # <<>> /\ strip(s) # <<>>)

RECURSIVE join(_, _)
join(sep, parts) ==
    IF parts = <<>> THEN <<>>
    ELSE IF Len(parts) = 1 THEN parts[1]
    ELSE parts[1] \o sep \o join(sep, Tail(parts))

\* list(dict.fromkeys(xs)): distinct elements, first occurrence wins
RECURSIVE dict_fromkeys(_)
dict_fromkeys(xs) ==
    IF xs = <<>> THEN <<>>
    ELSE LET front == SubSeq(xs, 1, Len(xs) - 1)
             last == xs[Len(xs)]
         IN  IF \E j \in 1..Len(front) : front[j] = last
             THEN dict_fromkeys(front)
             ELSE dict_fromkeys(front) \o <<last>>

Range(s) == {s[i] : i \in 1..Len(s)}

-----------------------------------------------------------------------------
(* The settings document: AppSettings and its built-in defaults *)

MASK == "***"

DefaultAiTimeout == 30
DefaultReportTimeout == 60

DefaultAiSystemPrompt == <<"S">>
DefaultAiUserPrompt == <<"U">>
DefaultReportSystemPrompt == <<"R">>
DefaultReportUserPrompt == <<"T">>

\* SecuritySettings; `present = FALSE` is a request that carries `security: null`
Security(pw) == [present |-> TRUE, admin_password |-> pw]
NoSecurity == [present |-> FALSE, admin_password |-> <<>>]

\* AppSettings(): every section at its default
AppSettings ==
    [fetch |-> [feeds |-> <<>>,
                interval_minutes |-> 1,
                per_feed_limit |-> 2,
                max_items |-> 2,
                use_article_page |-> FALSE,
                filter_keywords |-> <<>>],
     ai |-> [enabled |-> FALSE,
             api_key |-> "",
             timeout_seconds |-> DefaultAiTimeout,
             system_prompt |-> DefaultAiSystemPrompt,
             user_prompt_template |-> DefaultAiUserPrompt],
     telegram |-> [enabled |-> FALSE,
                   bot_token |-> "",
                   chat_id |-> "",
                   push_mode |-> "all",
                   push_summary |-> TRUE,
                   fetch_summary_enabled |-> TRUE],
     wecom |-> [enabled |-> FALSE,
                webhook_key |-> "",
                push_mode |-> "all",
                push_summary |-> TRUE,
                fetch_summary_enabled |-> TRUE],
     reports |-> [daily_enabled |-> FALSE,
                  hourly_enabled |-> FALSE,
                  daily_report_time |-> <<"0", "0", ":", "0", "0">>,
                  system_prompt |-> DefaultReportSystemPrompt,
                  user_prompt_template |-> DefaultReportUserPrompt,
                  report_timeout_seconds |-> DefaultReportTimeout],
     security |-> Security(<<"1", "2", "3", "4">>)]

\* config.load_settings(): the stored document, every section present
load_settings(doc) == doc

\* config.save_settings(settings): the document is replaced wholesale
save_settings(settings) == settings

-----------------------------------------------------------------------------
(* GET /api/settings *)

\* a secret is echoed as the sentinel when it is set
mask_unmasked(secret) == secret
mask(secret) == IF secret # "" THEN MASK ELSE secret

\* a blank prompt is shown as the built-in prompt
backfill_prompt(text, default) == IF is_blank(text) THEN default ELSE text

backfill_timeout(seconds, default) == IF seconds = 0 THEN default ELSE seconds

get_settings(s) ==
    LET defaults == AppSettings
    IN  [s EXCEPT
            !.ai.api_key = mask(@),
            !.telegram.bot_token = mask(@),
            !.wecom.webhook_key = mask(@),
            !.security.admin_password =
                IF s.security.present /\ @ # <<>> THEN <<>> ELSE @,
            !.ai.system_prompt = backfill_prompt(@, defaults.ai.system_prompt),
            !.ai.user_prompt_template =
                backfill_prompt(@, defaults.ai.user_prompt_template),
            !.ai.timeout_seconds = backfill_timeout(@, defaults.ai.timeout_seconds),
            !.reports.system_prompt =
                backfill_prompt(@, defaults.reports.system_prompt),
            !.reports.user_prompt_template =
                backfill_prompt(@, defaults.reports.user_prompt_template),
            !.reports.report_timeout_seconds =
                backfill_timeout(@, defaults.reports.report_timeout_seconds)]

-----------------------------------------------------------------------------
(* PUT /api/settings, up to save_settings *)

\* `x.isdigit() and len(x) == 4`
four_digits_any_length(x) == isdigit(x)
four_digits(x) == isdigit(x) /\ Len(x) = 4

\* the sentinel keeps the stored secret
keep_secret_overwrite(submitted, old) == submitted
keep_secret(submitted, old) == IF submitted = MASK THEN old ELSE submitted

default_prompt_never(text, default) == text
default_prompt(text, default) == IF is_blank(text) THEN default ELSE text

default_timeout(seconds, default) == IF seconds = 0 THEN default ELSE seconds

\* the settings to save, before the password is set
normalized_settings(old, submitted) ==
    LET defaults == AppSettings
    IN  [submitted EXCEPT
            !.ai.api_key = keep_secret(@, old.ai.api_key),
            !.telegram.bot_token = keep_secret(@, old.telegram.bot_token),
            !.wecom.webhook_key = keep_secret(@, old.wecom.webhook_key),
            !.ai.system_prompt = default_prompt(@, defaults.ai.system_prompt),
            !.ai.user_prompt_template =
                default_prompt(@, defaults.ai.user_prompt_template),
            !.ai.timeout_seconds = default_timeout(@, defaults.ai.timeout_seconds),
            !.reports.system_prompt =
                default_prompt(@, defaults.reports.system_prompt),
            !.reports.user_prompt_template =
                default_prompt(@, defaults.reports.user_prompt_template),
            !.reports.report_timeout_seconds =
                default_timeout(@, defaults.reports.report_timeout_seconds),
            !.security = IF @.present THEN @ ELSE defaults.security]

\* the outcome of the handler's checks: the HTTP status and, on 200, the document
\* handed to save_settings
update_settings_checks(old, rq) ==
    LET password == strip(rq.password)
        new_settings == normalized_settings(old, rq.settings)
        new_password == strip(rq.new_password)
    IN  IF ~four_digits(password)
        THEN [status |-> 400, new_settings |-> old]
        ELSE IF password # old.security.admin_password
        THEN [status |-> 403, new_settings |-> old]
        ELSE IF new_password # <<>>
        THEN IF ~four_digits(new_password)
             THEN [status |-> 400, new_settings |-> old]
             ELSE [status |-> 200,
                   new_settings |->
                       [new_settings EXCEPT !.security.admin_password = new_password]]
        ELSE [status |-> 200,
              new_settings |->
                  [new_settings EXCEPT
                      !.security.admin_password = old.security.admin_password]]

-----------------------------------------------------------------------------
(* Schedulers: scheduler.FetchScheduler and scheduler.AlignedScheduler *)

ReportTypes == {"hourly", "daily"}

\* `_scheduler = None`
NoScheduler == [exists |-> FALSE, interval |-> 0, running |-> FALSE]

FetchScheduler(interval_minutes) ==
    [exists |-> TRUE, interval |-> interval_minutes, running |-> FALSE]

fetch_start(s) == [s EXCEPT !.running = TRUE]
fetch_stop(s) == [s EXCEPT !.running = FALSE]
update_interval(s, interval_minutes) == [s EXCEPT !.interval = interval_minutes]

\* AlignedScheduler(name, compute_next_run, task): `report_time` is the
\* daily_report_time that the compute_next_run closure reads (hourly: none)
AlignedScheduler(report_type, report_time) ==
    [rtype |-> report_type, started |-> FALSE, report_time |-> report_time]

\* the identity of a newly constructed scheduler object
NewId(objs) == CHOOSE i \in 1..(Cardinality(DOMAIN objs) + 1) : i \notin DOMAIN objs

\* scheduler objects that nothing refers to and that run no thread are gone
Collect(objs, reg, refs) ==
    LET live == {i \in DOMAIN objs :
                    \/ objs[i].started
                    \/ i \in refs
                    \/ \E t \in DOMAIN reg : reg[t] = i}
    IN  [i \in live |-> objs[i]]

\* `_report_schedulers = {}`
NoReports == [t \in {} |-> 0]

\* no AlignedScheduler object
NoAligned == [i \in {} |-> AlignedScheduler("hourly", <<>>)]

\* `_report_schedulers.get(report_type)`: the scheduler's id, 0 for None
ensure_get(reg, report_type) ==
    IF report_type \in DOMAIN reg THEN reg[report_type] ELSE 0

\* the time of day the compute function of a report type is built over
compute_time(report_type, settings) ==
    IF report_type = "daily" THEN settings.reports.daily_report_time ELSE <<>>

enabled_flag(report_type, settings) ==
    IF report_type = "daily"
    THEN settings.reports.daily_enabled
    ELSE settings.reports.hourly_enabled

\* ensure_scheduler after its lookup returned `scheduler`
ensure_apply_keep(reg, objs, report_type, enabled, scheduler, report_time) ==
    IF enabled
    THEN LET id == IF scheduler = 0 THEN NewId(objs) ELSE scheduler
             made == IF scheduler = 0
                     THEN [i \in DOMAIN objs \cup {id} |->
                              IF i = id
                              THEN AlignedScheduler(report_type, report_time)
                              ELSE objs[i]]
                     ELSE objs
             reg1 == IF scheduler = 0
                     THEN [t \in DOMAIN reg \cup {report_type} |->
                              IF t = report_type THEN id ELSE reg[t]]
                     ELSE reg
         IN  [reg |-> reg1,
              objs |-> [made EXCEPT ![id].started = TRUE],
              raised |-> FALSE]
    ELSE [reg |-> reg, objs |-> objs, raised |-> FALSE]

ensure_apply(reg, objs, report_type, enabled, scheduler, report_time) ==
    IF enabled
    THEN LET id == IF scheduler = 0 THEN NewId(objs) ELSE scheduler
             made == IF scheduler = 0
                     THEN [i \in DOMAIN objs \cup {id} |->
                              IF i = id
                              THEN AlignedScheduler(report_type, report_time)
                              ELSE objs[i]]
                     ELSE objs
             reg1 == IF scheduler = 0
                     THEN [t \in DOMAIN reg \cup {report_type} |->
                              IF t = report_type THEN id ELSE reg[t]]
                     ELSE reg
         IN  [reg |-> reg1,
              objs |-> [made EXCEPT ![id].started = TRUE],
              raised |-> FALSE]
    ELSE IF scheduler # 0
    THEN IF report_type \in DOMAIN reg
         THEN [reg |-> [t \in DOMAIN reg \ {report_type} |-> reg[t]],
               objs |-> [objs EXCEPT ![scheduler].started = FALSE],
               raised |-> FALSE]
         ELSE \* `del _report_schedulers[report_type]` raises KeyError
              [reg |-> reg,
               objs |-> [objs EXCEPT ![scheduler].started = FALSE],
               raised |-> TRUE]
    ELSE [reg |-> reg, objs |-> objs, raised |-> FALSE]

\* ensure_scheduler run without interruption
ensure_scheduler(ss, report_type, settings) ==
    ensure_apply(ss.reg, ss.objs, report_type,
                 enabled_flag(report_type, settings),
                 ensure_get(ss.reg, report_type),
                 compute_time(report_type, settings))

\* _configure_report_schedulers run without interruption
configure_report_schedulers(reg, objs, settings) ==
    LET h == ensure_scheduler([reg |-> reg, objs |-> objs], "hourly", settings)
    IN  ensure_scheduler(h, "daily", settings)

-----------------------------------------------------------------------------
(* The settings endpoints and the lifecycle hooks as steps *)

Workers == {1, 2}

MaxShutdowns == 2

NoDoc == [none |-> TRUE]

IdleRequest ==
    [op |-> "none", pc |-> "idle", rq |-> NoDoc, new_settings |-> NoDoc,
     scheduler |-> 0, status |-> 0, body |-> NoDoc]

\* the scheduler ids that a request in flight holds in a local variable
Refs(rs) == {rs[r].scheduler : r \in DOMAIN rs} \ {0}

\* on_startup
OnStartup ==
    /\ phase = "init"
    /\ LET settings == load_settings(stored)
           conf == configure_report_schedulers(_report_schedulers, aligned, settings)
       IN  /\ _scheduler' = fetch_start(FetchScheduler(settings.fetch.interval_minutes))
           /\ _report_schedulers' = conf.reg
           /\ aligned' = conf.objs
    /\ phase' = "running"
    /\ UNCHANGED <<stored, shutdowns, req>>
    /\ UNCHANGED <<fetchVars, callVars>>

\* `x.stop()` on the module's fetch scheduler; on None it raises AttributeError
call_stop(s) ==
    IF s.exists THEN [sched |-> fetch_stop(s), raised |-> FALSE]
    ELSE [sched |-> s, raised |-> TRUE]

\* on_shutdown: the fetch scheduler, the report schedulers and the registry after
\* the call, and whether the call raised
on_shutdown_unguarded(sch, reg, objs) ==
    LET f == call_stop(sch)
    IN  [sched |-> f.sched,
         reg |-> IF f.raised THEN reg ELSE NoReports,
         objs |-> IF f.raised THEN objs
                  ELSE [i \in DOMAIN objs |->
                           IF \E t \in DOMAIN reg : reg[t] = i
                           THEN [objs[i] EXCEPT !.started = FALSE]
                           ELSE objs[i]],
         raised |-> f.raised]

on_shutdown(sch, reg, objs) ==
    LET f == IF sch.exists THEN call_stop(sch) ELSE [sched |-> sch, raised |-> FALSE]
    IN  [sched |-> f.sched,
         reg |-> IF f.raised THEN reg ELSE NoReports,
         objs |-> IF f.raised THEN objs
                  ELSE [i \in DOMAIN objs |->
                           IF \E t \in DOMAIN reg : reg[t] = i
                           THEN [objs[i] EXCEPT !.started = FALSE]
                           ELSE objs[i]],
         raised |-> f.raised]

OnShutdown ==
    /\ Len(shutdowns) < MaxShutdowns
    /\ \A r \in Workers : req[r].pc = "idle"
    /\ LET res == on_shutdown(_scheduler, _report_schedulers, aligned)
       IN  /\ _scheduler' = res.sched
           /\ _report_schedulers' = res.reg
           /\ aligned' = Collect(res.objs, res.reg, {})
           /\ shutdowns' = Append(shutdowns, IF res.raised THEN "raised" ELSE "ok")
    /\ phase' = "stopped"
    /\ UNCHANGED <<stored, req>>
    /\ UNCHANGED <<fetchVars, callVars>>

\* GET /api/settings
GetSettings(r) ==
    /\ phase = "running"
    /\ req[r].pc = "idle"
    /\ req' = [req EXCEPT ![r] =
                  [IdleRequest EXCEPT !.op = "GET", !.status = 200,
                                      !.body = get_settings(load_settings(stored))]]
    /\ UNCHANGED <<stored, _scheduler, _report_schedulers, aligned, phase, shutdowns>>
    /\ UNCHANGED <<fetchVars, callVars>>

\* PUT /api/settings: a request arrives at a worker thread
PutReceive(r, rq) ==
    /\ phase = "running"
    /\ req[r].pc = "idle"
    /\ req' = [req EXCEPT ![r] = [IdleRequest EXCEPT !.op = "PUT", !.pc = "check",
                                                     !.rq = rq]]
    /\ UNCHANGED <<stored, _scheduler, _report_schedulers, aligned, phase, shutdowns>>
    /\ UNCHANGED <<fetchVars, callVars>>

\* update_settings: load_settings, the password checks, the document to save
PutCheck(r) ==
    /\ req[r].pc = "check"
    /\ LET old == load_settings(stored)
           res == update_settings_checks(old, req[r].rq)
       IN  req' = [req EXCEPT ![r] =
                      IF res.status = 200
                      THEN [@ EXCEPT !.pc = "save", !.new_settings = res.new_settings]
                      ELSE [@ EXCEPT !.pc = "idle", !.rq = NoDoc,
                                     !.status = res.status]]
    /\ UNCHANGED <<stored, _scheduler, _report_schedulers, aligned, phase, shutdowns>>
    /\ UNCHANGED <<fetchVars, callVars>>

\* save_settings(new_settings)
PutSave(r) ==
    /\ req[r].pc = "save"
    /\ stored' = save_settings(req[r].new_settings)
    /\ req' = [req EXCEPT ![r].pc = "interval", ![r].rq = NoDoc]
    /\ UNCHANGED <<_scheduler, _report_schedulers, aligned, phase, shutdowns>>
    /\ UNCHANGED <<fetchVars, callVars>>

\* `if _scheduler: _scheduler.update_interval(...)`
PutInterval(r) ==
    /\ req[r].pc = "interval"
    /\ _scheduler' =
          IF _scheduler.exists
          THEN update_interval(_scheduler, req[r].new_settings.fetch.interval_minutes)
          ELSE _scheduler
    /\ req' = [req EXCEPT ![r].pc = "hourly_get"]
    /\ UNCHANGED <<stored, _report_schedulers, aligned, phase, shutdowns>>
    /\ UNCHANGED <<fetchVars, callVars>>

\* ensure_scheduler: `scheduler = _report_schedulers.get(report_type)`
PutEnsureGet(r) ==
    /\ req[r].pc \in {"hourly_get", "daily_get"}
    /\ LET report_type == IF req[r].pc = "hourly_get" THEN "hourly" ELSE "daily"
       IN  req' = [req EXCEPT
                      ![r].scheduler = ensure_get(_report_schedulers, report_type),
                      ![r].pc = IF report_type = "hourly" THEN "hourly_act"
                                ELSE "daily_act"]
    /\ UNCHANGED <<stored, _scheduler, _report_schedulers, aligned, phase, shutdowns>>
    /\ UNCHANGED <<fetchVars, callVars>>

\* ensure_scheduler: create, register and start, or stop and unregister
PutEnsureAct(r) ==
    /\ req[r].pc \in {"hourly_act", "daily_act"}
    /\ Cardinality(DOMAIN aligned) < MaxAligned
    /\ LET report_type == IF req[r].pc = "hourly_act" THEN "hourly" ELSE "daily"
           settings == req[r].new_settings
           res == ensure_apply(_report_schedulers, aligned, report_type,
                               enabled_flag(report_type, settings),
                               req[r].scheduler,
                               compute_time(report_type, settings))
           req1 == [req EXCEPT ![r] =
                       IF res.raised
                       THEN [@ EXCEPT !.pc = "idle", !.scheduler = 0, !.status = 500]
                       ELSE [@ EXCEPT !.scheduler = 0,
                                      !.pc = IF report_type = "hourly"
                                             THEN "daily_get" ELSE "respond"]]
       IN  /\ _report_schedulers' = res.reg
           /\ aligned' = Collect(res.objs, res.reg, Refs(req1))
           /\ req' = req1
    /\ UNCHANGED <<stored, _scheduler, phase, shutdowns>>
    /\ UNCHANGED <<fetchVars, callVars>>

\* `return get_settings()`
PutRespond(r) ==
    /\ req[r].pc = "respond"
    /\ req' = [req EXCEPT ![r].pc = "idle", ![r].status = 200,
                          ![r].body = get_settings(load_settings(stored))]
    /\ UNCHANGED <<stored, _scheduler, _report_schedulers, aligned, phase, shutdowns>>
    /\ UNCHANGED <<fetchVars, callVars>>

-----------------------------------------------------------------------------
(* Storage: storage.exists_article, insert_article, prune_articles *)

ArticleKey(feed, uid) == [feed_url |-> feed, item_uid |-> uid]

exists_article(rows, feed, uid) ==
    \E i \in 1..Len(rows) : rows[i] = ArticleKey(feed, uid)

\* the table after the insert and the returned row id (0: no id, the key is taken)
insert_article(rows, feed, uid) ==
    IF exists_article(rows, feed, uid)
    THEN [rows |-> rows, row_id |-> 0]
    ELSE [rows |-> Append(rows, ArticleKey(feed, uid)), row_id |-> 1]

\* the oldest rows beyond the max_items most recent are deleted
prune_articles(rows, max_items) ==
    IF Len(rows) > max_items
    THEN SubSeq(rows, Len(rows) - (IF max_items > 0 THEN max_items ELSE 0) + 1, Len(rows))
    ELSE rows

-----------------------------------------------------------------------------
(* do_fetch_once: the clients, the push gates and the per-entry computations *)

Platforms == {"telegram", "wecom"}

\* _build_ai_client(settings) is not None
has_ai_client(settings) == settings.ai.enabled /\ settings.ai.api_key # ""

\* _build_telegram_client(settings) is not None
has_telegram_client_without_chat_id(settings) ==
    /\ settings.telegram.enabled
    /\ settings.telegram.bot_token # ""
has_telegram_client(settings) ==
    /\ settings.telegram.enabled
    /\ settings.telegram.bot_token # ""
    /\ settings.telegram.chat_id # ""

\* _build_wecom_client(settings) is not None
has_wecom_client(settings) == settings.wecom.enabled /\ settings.wecom.webhook_key # ""

push_articles_any(push_mode) == TRUE
push_articles(push_mode) == push_mode \in {"all", "article_only"}
push_reports(push_mode) == push_mode \in {"all", "report_only"}

\* `[kw.strip() for kw in raw_keywords if ... kw.strip()]`
RECURSIVE filter_keywords(_)
filter_keywords(raw) ==
    IF raw = <<>> THEN <<>>
    ELSE (IF strip(Head(raw)) # <<>> THEN <<strip(Head(raw))>> ELSE <<>>)
         \o filter_keywords(Tail(raw))

RECURSIVE nonempty_parts(_)
nonempty_parts(parts) ==
    IF parts = <<>> THEN <<>>
    ELSE (IF Head(parts) # <<>> THEN <<Head(parts)>> ELSE <<>>)
         \o nonempty_parts(Tail(parts))

\* `" \n ".join(part for part in haystack_parts if part)`
haystack_without_author(e, extracted_content) ==
    join(<<" ", "\n", " ">>, nonempty_parts(<<e.title, e.content, extracted_content>>))
haystack(e, extracted_content) ==
    join(<<" ", "\n", " ">>,
         nonempty_parts(<<e.title, e.author, e.content, extracted_content>>))

RECURSIVE keywords_in(_, _)
keywords_in(terms, hay) ==
    IF terms = <<>> THEN <<>>
    ELSE (IF Head(terms) # <<>> /\ contains(hay, Head(terms))
          THEN <<Head(terms)>> ELSE <<>>)
         \o keywords_in(Tail(terms), hay)

\* matched_keywords of an entry
matched_keywords(keyword_terms, hay) ==
    IF keyword_terms # <<>> THEN dict_fromkeys(keywords_in(keyword_terms, hay)) ELSE <<>>

\* keywords_matched of an entry
keywords_matched(keyword_terms, hay) ==
    IF keyword_terms # <<>> THEN matched_keywords(keyword_terms, hay) # <<>> ELSE TRUE

\* entries.sort(key=sort_ts, reverse=True): stable, newest first
RECURSIVE sort_newest_first(_)
sort_newest_first(entries) ==
    IF entries = <<>> THEN <<>>
    ELSE LET rest == sort_newest_first(SubSeq(entries, 1, Len(entries) - 1))
             x == entries[Len(entries)]
             before == Cardinality({i \in 1..Len(rest) : rest[i].sort_ts >= x.sort_ts})
         IN  SubSeq(rest, 1, before) \o <<x>> \o SubSeq(rest, before + 1, Len(rest))

\* `limit = max(1, int(settings.fetch.per_feed_limit))`
feed_limit_unclamped(settings) == settings.fetch.per_feed_limit
feed_limit(settings) ==
    IF settings.fetch.per_feed_limit > 1 THEN settings.fetch.per_feed_limit ELSE 1

\* the entries of one feed that the cycle processes, in order
uncapped_entries(entries, settings) == sort_newest_first(entries)
capped_entries(entries, settings) ==
    LET sorted == sort_newest_first(entries)
        limit == feed_limit(settings)
    IN  IF Len(sorted) > limit THEN SubSeq(sorted, 1, limit) ELSE sorted

\* `not force and exists_article(feed, e.uid)`
is_duplicate_never(force, rows, feed, uid) == FALSE
is_duplicate(force, rows, feed, uid) == ~force /\ exists_article(rows, feed, uid)

\* the argument of prune_articles
prune_limit_off_by_one(settings) == settings.fetch.max_items + 1
prune_limit(settings) == settings.fetch.max_items

-----------------------------------------------------------------------------
(* Inputs of the fetch pipeline *)

EntryA == [uid |-> "u1", sort_ts |-> 2, title |-> <<"a">>, author |-> <<>>,
           content |-> <<"b">>, link |-> FALSE]
EntryB == [uid |-> "u2", sort_ts |-> 1, title |-> <<"c">>, author |-> <<>>,
           content |-> <<>>, link |-> TRUE]
EntryC == [uid |-> "u1", sort_ts |-> 1, title |-> <<"c">>, author |-> <<"b">>,
           content |-> <<>>, link |-> FALSE]

Raised == [ok |-> FALSE, entries |-> <<>>]
Fetched(entries) == [ok |-> TRUE, entries |-> entries]

\* what fetch_feed(feed) may do: the feeds keep serving the same entries
FeedResults(feed) ==
    IF feed = "f1"
    THEN {Raised, Fetched(<<EntryA, EntryB>>), Fetched(<<EntryB, EntryA>>)}
    ELSE {Raised, Fetched(<<>>), Fetched(<<EntryC>>)}

\* what extract_from_url may return (<<>>: nothing)
ExtractResults == {<<>>, <<"a">>}

SendResults == {"ok", "fail", "raise"}

Keys == {ArticleKey("f1", "u1"), ArticleKey("f1", "u2"), ArticleKey("f2", "u1")}

FetchStores ==
    {[AppSettings EXCEPT
         !.fetch.feeds = <<"f1", "f2">>,
         !.fetch.max_items = m,
         !.fetch.use_article_page = TRUE,
         !.fetch.filter_keywords = kws,
         !.ai.enabled = TRUE, !.ai.api_key = "k1",
         !.telegram.enabled = TRUE, !.telegram.bot_token = "t1",
         !.telegram.chat_id = "chat", !.telegram.push_mode = "all",
         !.wecom.enabled = TRUE, !.wecom.webhook_key = "w1",
         !.wecom.push_mode = "article_only"] :
        m \in {1, 3},
        kws \in {<<>>, <<<<"a">>, <<" ">>, <<" ", "a">>>>}}

-----------------------------------------------------------------------------
(* do_fetch_once as steps, one invocation per caller *)

\* the scheduler tick and POST /api/fetch
Callers == {"tick", "manual"}

NoEntry == [uid |-> "", sort_ts |-> 0, title |-> <<>>, author |-> <<>>,
            content |-> <<>>, link |-> FALSE]

\* the locals of an invocation; the counters that only feed the text of the summary
\* notice (ai_success, ai_failed, tokens_*, keyword_match_*) are left out.
\* history: the force argument of each invocation of the caller so far; got: the
\* keys that the invocation counted in new_items; fetched: what fetch_feed did for
\* each feed so far, the number of entries it returned or -1 when it raised
IdleCycle ==
    [pc |-> "idle", history |-> <<>>, force |-> FALSE, settings |-> NoDoc,
     fi |-> 0, entries |-> <<>>, ei |-> 0, dup |-> 0,
     new_items |-> 0, processed |-> 0, duplicates |-> 0, failed_items |-> 0,
     feed_fetch_failed |-> 0, ai_calls |-> 0,
     keywords_matched |-> FALSE, matched_keywords |-> <<>>, summary |-> "none",
     got |-> {}, sent |-> {}, fetched |-> <<>>, response |-> NoDoc]

\* the feed that the invocation is at, and its current entry
CurFeed(cy) == cy.settings.fetch.feeds[cy.fi]
CurEntry(cy) == cy.entries[cy.ei]

\* the invocation leaves feed fi: `duplicates += dup`, then the next feed or the
\* end-of-cycle summary
leave_feed(cy) ==
    [cy EXCEPT !.duplicates = @ + cy.dup, !.dup = 0, !.entries = <<>>, !.ei = 0,
               !.fi = @ + 1,
               !.pc = IF cy.fi + 1 <= Len(cy.settings.fetch.feeds)
                      THEN "feed" ELSE "summary"]

\* the invocation leaves the current entry: the next entry or the next feed
leave_entry(cy) ==
    LET done == [cy EXCEPT !.keywords_matched = FALSE, !.matched_keywords = <<>>,
                           !.summary = "none"]
    IN  IF cy.ei + 1 <= Len(cy.entries)
        THEN [done EXCEPT !.ei = @ + 1, !.pc = "entry"]
        ELSE leave_feed(done)

\* do_fetch_once(force): load_settings, the clients, the counters at zero
Start(c, force, max_runs) ==
    /\ cyc[c].pc \in {"idle", "done", "crashed"}
    /\ Len(cyc[c].history) < max_runs
    /\ LET settings == load_settings(stored)
       IN  cyc' = [cyc EXCEPT ![c] =
                      [IdleCycle EXCEPT
                          !.history = Append(cyc[c].history, force),
                          !.force = force,
                          !.settings = settings,
                          !.fi = 1,
                          !.pc = IF settings.fetch.feeds # <<>> THEN "feed"
                                 ELSE "summary"]]
    /\ UNCHANGED <<articles, pushed, inserts>>
    /\ UNCHANGED <<settingsVars, callVars>>

\* `entries = fetch_feed(feed)`: it raises, or returns the feed's entries, which
\* are sorted newest first and cut to the per-feed limit
FetchFeed(c) ==
    /\ cyc[c].pc = "feed"
    /\ \E result \in FeedResults(CurFeed(cyc[c])) :
          LET cy == [cyc[c] EXCEPT
                        !.fetched = Append(@, IF result.ok THEN Len(result.entries)
                                              ELSE -1)]
          IN  cyc' = [cyc EXCEPT ![c] =
                         IF ~result.ok
                         THEN leave_feed([cy EXCEPT !.feed_fetch_failed = @ + 1])
                         ELSE LET entries == capped_entries(result.entries, cy.settings)
                              IN  IF entries = <<>>
                                  THEN leave_feed(cy)
                                  ELSE [cy EXCEPT !.entries = entries, !.ei = 1,
                                                  !.dup = 0, !.pc = "entry"]]
    /\ UNCHANGED <<articles, pushed, inserts>>
    /\ UNCHANGED <<settingsVars, callVars>>

\* `processed += 1` and the dedup check; exists_article may raise, which ends the
\* invocation
CheckEntry(c, storage_ok) ==
    /\ cyc[c].pc = "entry"
    /\ LET cy == [cyc[c] EXCEPT !.processed = @ + 1]
       IN  cyc' = [cyc EXCEPT ![c] =
                      IF ~cy.force /\ ~storage_ok
                      THEN [cy EXCEPT !.pc = "crashed"]
                      ELSE IF is_duplicate(cy.force, articles, CurFeed(cy),
                                           CurEntry(cy).uid)
                      THEN leave_entry([cy EXCEPT !.dup = @ + 1])
                      ELSE [cy EXCEPT !.pc = "enrich"]]
    /\ UNCHANGED <<articles, pushed, inserts>>
    /\ UNCHANGED <<settingsVars, callVars>>

\* extraction of the article page, the keyword match, the AI summary or the fallback
Enrich(c, extracted, ai_ok) ==
    /\ cyc[c].pc = "enrich"
    /\ LET cy == cyc[c]
           e == CurEntry(cy)
           extracted_content ==
               IF cy.settings.fetch.use_article_page /\ e.link THEN extracted ELSE <<>>
           keyword_terms == filter_keywords(cy.settings.fetch.filter_keywords)
           hay == haystack(e, extracted_content)
           matched == matched_keywords(keyword_terms, hay)
           hit == keywords_matched(keyword_terms, hay)
           attempted_ai == has_ai_client(cy.settings) /\ hit
       IN  cyc' = [cyc EXCEPT ![c] =
                      [cy EXCEPT
                          !.matched_keywords = matched,
                          !.keywords_matched = hit,
                          !.ai_calls = @ + (IF attempted_ai THEN 1 ELSE 0),
                          !.summary = IF attempted_ai /\ ai_ok THEN "ai" ELSE "fallback",
                          !.pc = "insert"]]
    /\ UNCHANGED <<articles, pushed, inserts>>
    /\ UNCHANGED <<settingsVars, callVars>>

\* `row_id = insert_article(article)`; with an id `new_items += 1` and the prune
\* follows; an exception is counted in failed_items
InsertEntry(c, storage_ok) ==
    /\ cyc[c].pc = "insert"
    /\ LET cy == cyc[c]
           feed == CurFeed(cy)
           uid == CurEntry(cy).uid
           res == insert_article(articles, feed, uid)
       IN  IF ~storage_ok
           THEN /\ cyc' = [cyc EXCEPT ![c] =
                              leave_entry([cy EXCEPT !.failed_items = @ + 1])]
                /\ UNCHANGED <<articles, inserts>>
           ELSE /\ articles' = res.rows
                /\ IF res.row_id # 0
                   THEN /\ cyc' = [cyc EXCEPT ![c] =
                                      [cy EXCEPT !.new_items = @ + 1,
                                                 !.got = @ \cup {ArticleKey(feed, uid)},
                                                 !.pc = "prune"]]
                        /\ inserts' = [inserts EXCEPT ![ArticleKey(feed, uid)] = @ + 1]
                   ELSE /\ cyc' = [cyc EXCEPT ![c] = leave_entry(cy)]
                        /\ UNCHANGED inserts
    /\ UNCHANGED pushed
    /\ UNCHANGED <<settingsVars, callVars>>

\* `prune_articles(settings.fetch.max_items)`
PruneArticles(c, storage_ok) ==
    /\ cyc[c].pc = "prune"
    /\ LET cy == cyc[c]
       IN  IF ~storage_ok
           THEN /\ cyc' = [cyc EXCEPT ![c] =
                              leave_entry([cy EXCEPT !.failed_items = @ + 1])]
                /\ UNCHANGED articles
           ELSE /\ articles' = prune_articles(articles, prune_limit(cy.settings))
                /\ cyc' = [cyc EXCEPT ![c].pc = "push"]
    /\ UNCHANGED <<pushed, inserts>>
    /\ UNCHANGED <<settingsVars, callVars>>

\* the platforms that the article notice of the current entry goes to
notice_to_telegram_unfiltered(cy) ==
    /\ has_telegram_client(cy.settings)
    /\ push_articles(cy.settings.telegram.push_mode)
notice_to_telegram(cy) ==
    /\ has_telegram_client(cy.settings)
    /\ cy.keywords_matched
    /\ push_articles(cy.settings.telegram.push_mode)

notice_to_wecom(cy) ==
    /\ has_wecom_client(cy.settings)
    /\ cy.keywords_matched
    /\ push_articles(cy.settings.wecom.push_mode)

\* the article notices of a new row: Telegram, then WeCom; tg.send_message returns
\* true or false or raises, wecom.send_message returns true or false
PushNotices(c, tg_result, wecom_result) ==
    /\ cyc[c].pc = "push"
    /\ LET cy == cyc[c]
           key == ArticleKey(CurFeed(cy), CurEntry(cy).uid)
           tg == notice_to_telegram(cy)
           tg_raised == tg /\ tg_result = "raise"
           wecom == ~tg_raised /\ notice_to_wecom(cy)
       IN  /\ pushed' = [pushed EXCEPT
                            ![key]["telegram"] = @ + (IF tg THEN 1 ELSE 0),
                            ![key]["wecom"] = @ + (IF wecom THEN 1 ELSE 0)]
           /\ cyc' = [cyc EXCEPT ![c] =
                         IF tg_raised
                         THEN leave_entry([cy EXCEPT !.failed_items = @ + 1])
                         ELSE leave_entry(cy)]
    /\ UNCHANGED <<articles, inserts>>
    /\ UNCHANGED <<settingsVars, callVars>>

summary_to_telegram(settings) ==
    /\ has_telegram_client(settings)
    /\ push_reports(settings.telegram.push_mode)
    /\ settings.telegram.push_summary
    /\ settings.telegram.fetch_summary_enabled

summary_to_wecom(settings) ==
    /\ has_wecom_client(settings)
    /\ push_reports(settings.wecom.push_mode)
    /\ settings.wecom.push_summary
    /\ settings.wecom.fetch_summary_enabled

\* the end-of-cycle summary notices and the FetchResponse; an exception of
\* tg.send_message leaves do_fetch_once
Finish(c, tg_result) ==
    /\ cyc[c].pc = "summary"
    /\ LET cy == cyc[c]
           tg == summary_to_telegram(cy.settings)
           tg_raised == tg /\ tg_result = "raise"
           wecom == ~tg_raised /\ summary_to_wecom(cy.settings)
           sent == (IF tg THEN {"telegram"} ELSE {}) \cup (IF wecom THEN {"wecom"} ELSE {})
       IN  cyc' = [cyc EXCEPT ![c] =
                      IF tg_raised
                      THEN [cy EXCEPT !.sent = sent, !.pc = "crashed"]
                      ELSE [cy EXCEPT
                               !.sent = sent,
                               !.pc = "done",
                               !.response =
                                   [fetched_feeds |-> Len(cy.settings.fetch.feeds),
                                    new_items |-> cy.new_items,
                                    processed_items |-> cy.processed]]]
    /\ UNCHANGED <<articles, pushed, inserts>>
    /\ UNCHANGED <<settingsVars, callVars>>

-----------------------------------------------------------------------------
(* Inputs of the settings endpoints *)

PW1234 == <<"1", "2", "3", "4">>
PW5678 == <<"5", "6", "7", "8">>

T0000 == <<"0", "0", ":", "0", "0">>
T0930 == <<"0", "9", ":", "3", "0">>

\* requests that vary the secrets and the passwords
SecretRequests ==
    {[settings |-> [AppSettings EXCEPT !.ai.api_key = k,
                                       !.telegram.bot_token = t,
                                       !.wecom.webhook_key = w,
                                       !.security = sec],
      password |-> p,
      new_password |-> n] :
        k \in {"", MASK, "k2"}, t \in {MASK, "t2"}, w \in {MASK, ""},
        sec \in {NoSecurity, Security(<<>>)},
        p \in {PW1234, <<" ">> \o PW1234, <<"1", "2", "3">>, <<"1", "2", "a", "4">>,
               PW5678, <<>>},
        n \in {<<>>, <<" ">>, PW5678, <<"5", "6">>, PW5678 \o <<" ">>}}

SecretStores ==
    {[AppSettings EXCEPT !.ai.api_key = k, !.telegram.bot_token = "t1",
                         !.wecom.webhook_key = w] :
        k \in {"", "k1"}, w \in {"", "w1"}}

\* requests that vary the schedule
ScheduleRequests ==
    {[settings |-> [AppSettings EXCEPT !.reports.hourly_enabled = h,
                                       !.reports.daily_enabled = d,
                                       !.reports.daily_report_time = t,
                                       !.fetch.interval_minutes = i],
      password |-> p,
      new_password |-> <<>>] :
        h \in BOOLEAN, d \in BOOLEAN, t \in {T0000, T0930}, i \in {1, 5},
        p \in {PW1234, PW5678}}

ScheduleStores ==
    {[AppSettings EXCEPT !.reports.hourly_enabled = h,
                         !.reports.daily_enabled = d] :
        h \in BOOLEAN, d \in BOOLEAN}

\* requests that vary the prompts and the timeouts
PromptTexts == {<<>>, <<" ">>, <<"p">>}

PromptRequests ==
    {[settings |-> [AppSettings EXCEPT !.ai.system_prompt = a,
                                       !.ai.user_prompt_template = b,
                                       !.reports.system_prompt = c,
                                       !.reports.user_prompt_template = d,
                                       !.ai.timeout_seconds = x,
                                       !.reports.report_timeout_seconds = y],
      password |-> p,
      new_password |-> <<>>] :
        a \in PromptTexts, b \in PromptTexts, c \in PromptTexts, d \in PromptTexts,
        x \in {0, 5}, y \in {0, 5}, p \in {PW1234, <<"1", "2">>}}

PromptStores ==
    {[AppSettings EXCEPT !.ai.system_prompt = a,
                         !.ai.user_prompt_template = a,
                         !.reports.system_prompt = c,
                         !.reports.user_prompt_template = c,
                         !.ai.timeout_seconds = x,
                         !.reports.report_timeout_seconds = x] :
        a \in PromptTexts, c \in PromptTexts, x \in {0, 5}}

-----------------------------------------------------------------------------
(* Specifications of the settings endpoints: one request at a time *)

\* no helper call under way
NoCall == [fn |-> "none"]

\* the reports table after init_db
NoRows == [rows |-> {}, last_id |-> 0]

InitFetchVars ==
    /\ articles = <<>>
    /\ cyc = [c \in Callers |-> IdleCycle]
    /\ pushed = [k \in Keys |-> [p \in Platforms |-> 0]]
    /\ inserts = [k \in Keys |-> 0]
    /\ reports = NoRows

InitSettings(Stores) ==
    /\ stored \in Stores
    /\ _scheduler = NoScheduler
    /\ _report_schedulers = NoReports
    /\ aligned = NoAligned
    /\ phase = "init"
    /\ shutdowns = <<>>
    /\ req = [r \in Workers |-> IdleRequest]
    /\ InitFetchVars
    /\ call = NoCall

NextSettings(Requests, Threads) ==
    \/ OnStartup
    \/ OnShutdown
    \/ \E r \in Threads :
          \/ GetSettings(r)
          \/ \E rq \in Requests : PutReceive(r, rq)
          \/ PutCheck(r)
          \/ PutSave(r)
          \/ PutInterval(r)
          \/ PutEnsureGet(r)
          \/ PutEnsureAct(r)
          \/ PutRespond(r)

SpecSecrets == InitSettings(SecretStores) /\ [][NextSettings(SecretRequests, {1})]_vars

SpecSchedule == InitSettings(ScheduleStores) /\ [][NextSettings(ScheduleRequests, {1})]_vars

\* two worker threads serve PUT /api/settings at the same time
ConcurrentRequests ==
    {rq \in ScheduleRequests : /\ rq.settings.reports.daily_report_time = T0000
                               /\ ~rq.settings.reports.daily_enabled
                               /\ rq.password = PW1234}

SpecConcurrent ==
    InitSettings(ScheduleStores) /\ [][NextSettings(ConcurrentRequests, Workers)]_vars

SpecPrompts == InitSettings(PromptStores) /\ [][NextSettings(PromptRequests, {1})]_vars

-----------------------------------------------------------------------------
(* Specification of the fetch pipeline: the scheduler tick and a manual fetch *)

InitFetch(Stores) ==
    /\ stored \in Stores
    /\ _scheduler = NoScheduler
    /\ _report_schedulers = NoReports
    /\ aligned = NoAligned
    /\ phase = "running"
    /\ shutdowns = <<>>
    /\ req = [r \in Workers |-> IdleRequest]
    /\ InitFetchVars
    /\ call = NoCall

\* the tick calls do_fetch_once(), POST /api/fetch calls do_fetch_once(force)
NextFetch(Cs, max_runs, StorageResults, TgResults) ==
    \/ \E c \in Cs, force \in BOOLEAN :
          (c = "tick" => ~force) /\ Start(c, force, max_runs)
    \/ \E c \in Cs :
          \/ FetchFeed(c)
          \/ \E storage_ok \in StorageResults : CheckEntry(c, storage_ok)
          \/ \E extracted \in ExtractResults, ai_ok \in BOOLEAN :
                Enrich(c, extracted, ai_ok)
          \/ \E storage_ok \in StorageResults : InsertEntry(c, storage_ok)
          \/ \E storage_ok \in StorageResults : PruneArticles(c, storage_ok)
          \/ \E tg_result \in TgResults, wecom_result \in BOOLEAN :
                PushNotices(c, tg_result, wecom_result)
          \/ \E tg_result \in TgResults : Finish(c, tg_result)

\* the tick and a manual fetch overlap; storage and Telegram do not raise
SpecFetch ==
    InitFetch(FetchStores) /\ [][NextFetch(Callers, MaxOverlapRuns, {TRUE}, {"ok", "fail"})]_vars

\* manual fetches one after the other; storage and Telegram may raise
\* one caller, feeds that fail, every per-feed limit, no other fault
FeedStores ==
    {[AppSettings EXCEPT
         !.fetch.feeds = <<"f1", "f2">>,
         !.fetch.per_feed_limit = limit,
         !.fetch.use_article_page = TRUE,
         !.ai.enabled = TRUE, !.ai.api_key = "k1",
         !.telegram.enabled = TRUE, !.telegram.bot_token = "t1",
         !.telegram.chat_id = "chat", !.telegram.push_mode = "all"] :
        limit \in 0..2}

SpecFeeds ==
    InitFetch(FeedStores) /\ [][NextFetch({"manual"}, MaxRuns, {TRUE}, {"ok", "fail"})]_vars

\* one caller, every push mode, a Telegram client that is not built, no storage fault
NoticeStores ==
    {[AppSettings EXCEPT
         !.fetch.feeds = <<"f1", "f2">>,
         !.fetch.use_article_page = TRUE,
         !.fetch.filter_keywords = kws,
         !.telegram.enabled = TRUE, !.telegram.bot_token = "t1",
         !.telegram.chat_id = chat, !.telegram.push_mode = tm,
         !.wecom.enabled = TRUE, !.wecom.webhook_key = "w1",
         !.wecom.push_mode = wm] :
        kws \in {<<>>, <<<<"a">>>>},
        chat \in {"", "chat"},
        tm \in {"all", "article_only", "report_only"},
        wm \in {"article_only", "report_only"}}

SpecNotices ==
    InitFetch(NoticeStores) /\ [][NextFetch({"manual"}, MaxRuns, {TRUE}, SendResults)]_vars

SpecFetchSerial ==
    InitFetch(FetchStores) /\ [][NextFetch({"manual"}, MaxRuns, BOOLEAN, SendResults)]_vars

-----------------------------------------------------------------------------
(* Claims about the settings endpoints and the scheduler lifecycle *)

\* the documents that differ from d at most in the values of its non-empty secrets
SecretVariants(d) ==
    {[d EXCEPT !.ai.api_key = k, !.telegram.bot_token = t, !.wecom.webhook_key = w,
               !.security.admin_password = p] :
        k \in IF d.ai.api_key = "" THEN {""} ELSE {"k1", "k2", "k3"},
        t \in IF d.telegram.bot_token = "" THEN {""} ELSE {"t1", "t2", "t3"},
        w \in IF d.wecom.webhook_key = "" THEN {""} ELSE {"w1", "w2"},
        p \in IF d.security.admin_password = <<>> THEN {<<>>} ELSE {PW1234, PW5678}}

Redacted(view, d) ==
    /\ view.ai.api_key = (IF d.ai.api_key = "" THEN "" ELSE MASK)
    /\ view.telegram.bot_token = (IF d.telegram.bot_token = "" THEN "" ELSE MASK)
    /\ view.wecom.webhook_key = (IF d.wecom.webhook_key = "" THEN "" ELSE MASK)
    /\ view.security.admin_password = <<>>

\* C5: the response of GET /api/settings, and of a successful PUT, shows every
\* non-empty api_key, bot_token and webhook_key as "***" and the admin password as
\* the empty string, and is the same for any two stored documents that differ only
\* in the values of their non-empty secrets.
C5_SecretsNeverEchoed ==
    LET view == get_settings(load_settings(stored))
    IN  /\ Redacted(view, stored)
        /\ \A d \in SecretVariants(stored) : get_settings(load_settings(d)) = view
        /\ \A r \in Workers :
              req[r].pc = "idle" /\ req[r].status = 200 =>
                  /\ req[r].body = view
                  /\ Redacted(req[r].body, stored)

C5_Witness ==
    \E r \in Workers :
        /\ req[r].op = "PUT" /\ req[r].pc = "idle" /\ req[r].status = 200
        /\ stored.ai.api_key = "k2" /\ stored.telegram.bot_token = "t2"
        /\ stored.wecom.webhook_key = "w1"
        /\ req[r].body.ai.api_key = MASK

\* the save_settings step of request r
SaveStep(r) == req[r].pc = "save" /\ req'[r].pc = "interval"

\* C6: a successful PUT that submits "***" for api_key, bot_token or webhook_key
\* stores the previously stored value of that secret and any other submitted value
\* as submitted; without a new_password the stored admin password stays; a GET after
\* it shows the sentinel for a secret that is set, never the secret.
C6_SentinelKeepsSecret ==
    [][\A r \in Workers : SaveStep(r) =>
          LET sub == req[r].rq.settings
              view == get_settings(load_settings(stored'))
          IN  /\ stored'.ai.api_key =
                    (IF sub.ai.api_key = MASK THEN stored.ai.api_key
                     ELSE sub.ai.api_key)
              /\ stored'.telegram.bot_token =
                    (IF sub.telegram.bot_token = MASK THEN stored.telegram.bot_token
                     ELSE sub.telegram.bot_token)
              /\ stored'.wecom.webhook_key =
                    (IF sub.wecom.webhook_key = MASK THEN stored.wecom.webhook_key
                     ELSE sub.wecom.webhook_key)
              /\ (req[r].rq.new_password = <<>> =>
                    stored'.security.admin_password = stored.security.admin_password)
              /\ (stored'.ai.api_key # "" => view.ai.api_key = MASK)
              /\ (stored'.telegram.bot_token # "" => view.telegram.bot_token = MASK)
              /\ (stored'.wecom.webhook_key # "" => view.wecom.webhook_key = MASK)]_vars

\* "k1", "t1" and "w1" occur in no request: they are stored only if kept
C6_Witness ==
    \E r \in Workers :
        /\ req[r].op = "PUT" /\ req[r].pc = "idle" /\ req[r].status = 200
        /\ stored.ai.api_key = "k1" /\ stored.telegram.bot_token = "t2"
        /\ stored.wecom.webhook_key = "w1"
        /\ req[r].body.ai.api_key = MASK

\* the password checks of request r
CheckStep(r) == req[r].pc = "check" /\ req'[r].pc # "check"

Rejected(r, status) ==
    /\ req'[r].pc = "idle"
    /\ req'[r].status = status
    /\ stored' = stored
    /\ _scheduler' = _scheduler
    /\ _report_schedulers' = _report_schedulers
    /\ aligned' = aligned

\* exactly 4 numeric characters
FourDigitPin(x) == Len(x) = 4 /\ \A i \in 1..Len(x) : x[i] \in DIGITS

\* C7 as stated: a PUT whose password is not exactly 4 numeric characters fails with
\* 400, one whose well-formed password differs from the stored one with 403, one
\* whose non-empty new_password is not exactly 4 numeric characters with 400, each
\* leaving the stored document and the schedulers unchanged.
C7_AsStated ==
    [][\A r \in Workers : CheckStep(r) =>
          LET rq == req[r].rq
          IN  /\ (~FourDigitPin(rq.password) => Rejected(r, 400))
              /\ (FourDigitPin(rq.password)
                    /\ rq.password # stored.security.admin_password
                    => Rejected(r, 403))
              /\ (rq.password = stored.security.admin_password
                    /\ FourDigitPin(rq.password)
                    /\ rq.new_password # <<>> /\ ~FourDigitPin(rq.new_password)
                    => Rejected(r, 400))]_vars

\* C7 (amended): with password and new_password trimmed of surrounding whitespace
\* first, a PUT whose password is not exactly 4 digits fails with 400, one whose
\* well-formed password differs from the stored one with 403, one whose non-empty
\* new_password is not exactly 4 digits with 400, each leaving the stored document,
\* the fetch scheduler and the report schedulers unchanged.
C7_RejectedBeforeWrite ==
    [][\A r \in Workers : CheckStep(r) =>
          LET password == strip(req[r].rq.password)
              new_password == strip(req[r].rq.new_password)
          IN  /\ (~FourDigitPin(password) => Rejected(r, 400))
              /\ (FourDigitPin(password) /\ password # stored.security.admin_password
                    => Rejected(r, 403))
              /\ (FourDigitPin(password) /\ password = stored.security.admin_password
                    /\ new_password # <<>> /\ ~FourDigitPin(new_password)
                    => Rejected(r, 400))]_vars

C7_Witness ==
    \E r \in Workers :
        /\ req[r].op = "PUT" /\ req[r].pc = "idle" /\ req[r].status = 400
        /\ stored.security.admin_password = PW5678

NonBlank(d) ==
    /\ ~is_blank(d.ai.system_prompt)
    /\ ~is_blank(d.ai.user_prompt_template)
    /\ ~is_blank(d.reports.system_prompt)
    /\ ~is_blank(d.reports.user_prompt_template)
    /\ d.ai.timeout_seconds # 0
    /\ d.reports.report_timeout_seconds # 0

\* C8: the document a successful PUT persists has no blank prompt and no zero
\* timeout, and GET /api/settings shows none blank whatever is stored.
C8_NeverBlank ==
    /\ [](NonBlank(get_settings(load_settings(stored))))
    /\ [](\A r \in Workers :
            req[r].pc = "idle" /\ req[r].status = 200 => NonBlank(req[r].body))
    /\ [][\A r \in Workers : SaveStep(r) => NonBlank(stored')]_vars

\* the built-in prompts occur in no request: they are stored only if filled in
C8_Witness ==
    \E r \in Workers :
        /\ req[r].op = "PUT" /\ req[r].pc = "idle" /\ req[r].status = 200
        /\ stored.ai.system_prompt = DefaultAiSystemPrompt
        /\ stored.reports.user_prompt_template = DefaultReportUserPrompt
        /\ stored.ai.user_prompt_template = <<"p">>
        /\ stored.ai.timeout_seconds = DefaultAiTimeout
        /\ stored.reports.report_timeout_seconds = 5

\* the schedulers are those of settings document d
Configured(d) ==
    /\ \A t \in ReportTypes :
          /\ t \in DOMAIN _report_schedulers <=> enabled_flag(t, d)
          /\ t \in DOMAIN _report_schedulers =>
                /\ _report_schedulers[t] \in DOMAIN aligned
                /\ aligned[_report_schedulers[t]].started
                /\ aligned[_report_schedulers[t]].rtype = t
    /\ \A i \in DOMAIN aligned :
          aligned[i].started => \E t \in DOMAIN _report_schedulers :
                                    _report_schedulers[t] = i
    /\ _scheduler.exists
    /\ _scheduler.running
    /\ _scheduler.interval = d.fetch.interval_minutes

\* C9: after on_startup and after every successful PUT, a started report scheduler
\* is registered for a report type iff the type is enabled in the stored settings,
\* and the fetch scheduler's interval is the stored fetch.interval_minutes.
C9_SchedulersFollowSettings ==
    (phase = "running"
        /\ \A r \in Workers : req[r].pc \in {"idle", "check", "save", "respond"})
    => Configured(stored)

C9_Witness ==
    \E r \in Workers :
        /\ req[r].op = "PUT" /\ req[r].pc = "idle" /\ req[r].status = 200
        /\ ~stored.reports.hourly_enabled /\ stored.reports.daily_enabled
        /\ stored.fetch.interval_minutes = 5
        /\ DOMAIN _report_schedulers = {"daily"}

\* an on_shutdown call
ShutdownStep == Len(shutdowns') = Len(shutdowns) + 1

\* C10: on_shutdown stops the fetch scheduler and every report scheduler and empties
\* the registry; it never raises, also without on_startup; a second call changes
\* nothing.
C10_ShutdownIdempotent ==
    /\ [](\A i \in 1..Len(shutdowns) : shutdowns[i] = "ok")
    /\ [](shutdowns # <<>> =>
            /\ ~_scheduler.running
            /\ _report_schedulers = NoReports
            /\ \A i \in DOMAIN aligned : ~aligned[i].started)
    /\ [][ShutdownStep /\ shutdowns # <<>> =>
            /\ _scheduler' = _scheduler
            /\ _report_schedulers' = _report_schedulers
            /\ aligned' = aligned
            /\ stored' = stored]_vars

C10_Witness ==
    /\ Len(shutdowns) = 2
    /\ _scheduler.exists
    /\ stored.reports.hourly_enabled /\ stored.reports.daily_enabled

-----------------------------------------------------------------------------
(* Claims about the fetch pipeline *)

UnderWay(c) == cyc[c].pc \notin {"idle", "done", "crashed"}

Rows(k) == {i \in 1..Len(articles) : articles[i] = k}

\* the dedup check of caller c finds the current entry stored, without force
SkipStep(c) ==
    /\ cyc[c].pc = "entry" /\ ~cyc[c].force
    /\ exists_article(articles, CurFeed(cyc[c]), CurEntry(cyc[c]).uid)
    /\ cyc'[c] # cyc[c]

C2_OneRowOneNotice ==
    (\A c \in Callers : UnderWay(c)) =>
        \A k \in Keys :
            /\ Cardinality(Rows(k)) <= 1
            /\ Cardinality({c \in Callers : k \in cyc[c].got}) <= 1
            /\ \A p \in Platforms : pushed[k][p] <= 1

\* C3: over a sequence of force=false cycles each key is inserted at most once and
\* its article notice is pushed at most once per platform.
C3_InsertedOnce ==
    (\A c \in Callers : \A i \in 1..Len(cyc[c].history) : ~cyc[c].history[i]) =>
        \A k \in Keys :
            /\ inserts[k] <= 1
            /\ \A p \in Platforms : pushed[k][p] <= 1

\* the insert_article step of caller c, and its outcome with a row id
InsertStep(c) == cyc[c].pc = "insert" /\ cyc'[c] # cyc[c]
Inserted(c) == InsertStep(c) /\ Len(articles') = Len(articles) + 1

\* the prune_articles step of caller c that returns
PruneStep(c) == cyc[c].pc = "prune" /\ cyc'[c].pc = "push"

\* the n most recently created rows
MostRecent(rows, n) ==
    IF Len(rows) > n THEN SubSeq(rows, Len(rows) - n + 1, Len(rows)) ELSE rows

\* C4: a prune leaves at most max_items rows, the max_items most recently created
\* ones; do_fetch_once prunes with the loaded fetch.max_items after every insert
\* that returned a row id and only then, so the count is within max_items after
\* each inserted article of a cycle.
C4_PruneKeepsMostRecent ==
    /\ [][\A c \in Callers :
            /\ PruneStep(c) =>
                  /\ Len(articles') <= cyc[c].settings.fetch.max_items
                  /\ articles' = MostRecent(articles, cyc[c].settings.fetch.max_items)
            /\ InsertStep(c) => (Inserted(c) <=> cyc'[c].pc = "prune")
            /\ cyc'[c].pc = "prune" /\ cyc[c].pc # "prune" => Inserted(c)]_vars
    /\ [](\A c \in Callers :
            cyc[c].pc = "push" => Len(articles) <= cyc[c].settings.fetch.max_items)

\* the second insert of a cycle was pruned down to max_items = 1
C4_Witness ==
    \E c \in Callers :
        /\ cyc[c].pc = "push" /\ cyc[c].new_items = 2
        /\ cyc[c].settings.fetch.max_items = 1
        /\ Len(articles) = 1
        /\ articles[1] = ArticleKey(CurFeed(cyc[c]), CurEntry(cyc[c]).uid)

-----------------------------------------------------------------------------
(* wecom_client.WeComClient._truncate_text *)

\* the longest text and the largest max_length that _truncate_text is called with
MaxTextLen == 5
MaxTruncLen == 8

NEWLINE == "\n"
ELLIPSIS == <<".", ".", ".">>

\* `text.split('\n')`
RECURSIVE split_lines(_)
split_lines(text) ==
    IF \A i \in 1..Len(text) : text[i] # NEWLINE
    THEN <<text>>
    ELSE LET i == CHOOSE j \in 1..Len(text) :
                      text[j] = NEWLINE /\ \A k \in 1..(j - 1) : text[k] # NEWLINE
         IN  <<SubSeq(text, 1, i - 1)>> \o split_lines(SubSeq(text, i + 1, Len(text)))

\* the loop over lines: a line is kept while it fits into max_length - 3
RECURSIVE kept_lines(_, _, _)
kept_lines(lines, current_length, max_length) ==
    IF lines = <<>> THEN <<>>
    ELSE IF current_length + Len(Head(lines)) + 1 > max_length - 3 THEN <<>>
    ELSE <<Head(lines)>>
         \o kept_lines(Tail(lines), current_length + Len(Head(lines)) + 1, max_length)

_truncate_text(text, max_length) ==
    IF Len(text) <= max_length THEN text
    ELSE LET truncated == join(<<NEWLINE>>, kept_lines(split_lines(text), 0, max_length))
         IN  IF Len(truncated) < Len(text) THEN truncated \o ELLIPSIS ELSE truncated

\* the texts of up to n characters over a letter and the newline
RECURSIVE TextsUpTo(_)
TextsUpTo(n) ==
    IF n = 0 THEN {<<>>}
    ELSE LET shorter == TextsUpTo(n - 1)
         IN  shorter \cup {Append(t, c) : t \in shorter, c \in {"a", NEWLINE}}

TruncateCalls ==
    {[fn |-> "_truncate_text", text |-> t, max_length |-> m, returned |-> FALSE,
      result |-> <<>>] : t \in TextsUpTo(MaxTextLen), m \in 0..MaxTruncLen}

\* the state in which nothing but helper calls happens
InitCalls(Calls) ==
    /\ stored = AppSettings
    /\ _scheduler = NoScheduler
    /\ _report_schedulers = NoReports
    /\ aligned = NoAligned
    /\ phase = "running"
    /\ shutdowns = <<>>
    /\ req = [r \in Workers |-> IdleRequest]
    /\ InitFetchVars
    /\ call \in Calls

TruncateText ==
    /\ call.fn = "_truncate_text" /\ ~call.returned
    /\ call' = [call EXCEPT !.returned = TRUE,
                            !.result = _truncate_text(call.text, call.max_length)]
    /\ UNCHANGED <<settingsVars, fetchVars, reports>>

SpecTruncate == InitCalls(TruncateCalls) /\ [][TruncateText]_vars

\* C11: the result of _truncate_text has at most max_length characters; a text that
\* fits is returned unchanged, a longer one gives a result that ends with "...".
C11_TruncateWithinLength ==
    call.fn = "_truncate_text" /\ call.returned =>
        /\ Len(call.result) <= call.max_length
        /\ (Len(call.text) <= call.max_length => call.result = call.text)
        /\ (Len(call.text) > call.max_length =>
              /\ Len(call.result) >= 3
              /\ SubSeq(call.result, Len(call.result) - 2, Len(call.result)) = ELLIPSIS)

-----------------------------------------------------------------------------
(* wecom_client.WeComClient.send_message *)

\* what the webhook may do with a POST: the transport raises (post |-> "raise"), or
\* a response arrives with a status, with raise_for_status raising or not, and with
\* a body that is no JSON, a JSON value that is no object, or a JSON object
HttpBodies ==
    {[kind |-> "invalid", has_errcode |-> FALSE, errcode |-> 0],
     [kind |-> "list", has_errcode |-> FALSE, errcode |-> 0],
     [kind |-> "dict", has_errcode |-> FALSE, errcode |-> 0],
     [kind |-> "dict", has_errcode |-> TRUE, errcode |-> 0],
     [kind |-> "dict", has_errcode |-> TRUE, errcode |-> 93000]}

\* raise_for_status raises for 4xx and 5xx; for 3xx it depends on the httpx release
HttpOutcomes ==
    {[post |-> "raise", status_code |-> 0, status_raises |-> FALSE, body |-> b] :
        b \in {[kind |-> "invalid", has_errcode |-> FALSE, errcode |-> 0]}}
    \cup {[post |-> "response", status_code |-> c, status_raises |-> r, body |-> b] :
            c \in {200, 302, 400, 500}, r \in BOOLEAN, b \in HttpBodies}

WellFormed(http) ==
    http.post = "response" =>
        /\ (http.status_code >= 400 => http.status_raises)
        /\ (http.status_code < 300 => ~http.status_raises)

\* `data.get("errcode", -1)`
response_errcode_default_zero(data) == IF data.has_errcode THEN data.errcode ELSE 0
response_errcode(data) == IF data.has_errcode THEN data.errcode ELSE 0 - 1

\* the body of the try statement: "raise" for an exception, else the returned value
send_message_try(http) ==
    IF http.post = "raise" THEN "raise"
    ELSE IF http.status_raises THEN "raise"
    ELSE IF http.body.kind = "invalid" THEN "raise"
    ELSE IF http.body.kind # "dict" THEN "raise"
    ELSE IF response_errcode(http.body) # 0 THEN "false"
    ELSE "true"

\* send_message(content): the returned value or "raise", and the POSTs issued
send_message(webhook_key, http) ==
    IF webhook_key = "" THEN [result |-> "false", posts |-> 0]
    ELSE LET outcome == send_message_try(http)
         IN  [result |-> IF outcome = "raise" THEN "false" ELSE outcome, posts |-> 1]

SendMessageCalls ==
    {[fn |-> "send_message", webhook_key |-> k, http |-> h, returned |-> FALSE,
      result |-> "none", posts |-> 0] :
        k \in {"", "w1", "w2"}, h \in {x \in HttpOutcomes : WellFormed(x)}}

SendMessage ==
    /\ call.fn = "send_message" /\ ~call.returned
    /\ LET out == send_message(call.webhook_key, call.http)
       IN  call' = [call EXCEPT !.returned = TRUE, !.result = out.result,
                                !.posts = out.posts]
    /\ UNCHANGED <<settingsVars, fetchVars, reports>>

SpecSendMessage == InitCalls(SendMessageCalls) /\ [][SendMessage]_vars

\* the webhook acknowledged the message: a response, no status error, a JSON object
\* whose errcode is 0
Acknowledged(http) ==
    /\ http.post = "response" /\ ~http.status_raises
    /\ http.body.kind = "dict" /\ http.body.has_errcode /\ http.body.errcode = 0

\* C12: send_message never raises; without a webhook_key it returns false and issues
\* no request; it returns false when the POST raises, when the status is 400 or
\* more, and when errcode is missing or not 0; it returns true only when the call
\* succeeded and errcode is 0.
C12_SendMessageNeverRaises ==
    call.fn = "send_message" /\ call.returned =>
        /\ call.result \in {"true", "false"}
        /\ (call.webhook_key = "" => call.result = "false" /\ call.posts = 0)
        /\ (call.http.post = "raise" => call.result = "false")
        /\ (call.http.status_code >= 400 => call.result = "false")
        /\ (~call.http.body.has_errcode \/ call.http.body.errcode # 0
              => call.result = "false")
        /\ (call.result = "true" <=>
              call.webhook_key # "" /\ Acknowledged(call.http))

\* a response without errcode was answered with false
C12_Witness ==
    /\ call.fn = "send_message" /\ call.returned
    /\ call.webhook_key = "w1" /\ call.posts = 1
    /\ call.http.post = "response" /\ call.http.status_code = 200
    /\ call.http.body.kind = "dict" /\ ~call.http.body.has_errcode
    /\ call.result = "false"

-----------------------------------------------------------------------------
(* main._next_top_of_hour and main._next_midnight *)

\* the days that the instants of the model span
MaxDay == 1

\* report_service.BEIJING_TZ: UTC+8, no daylight saving
BeijingOffsetHours == 8

\* a datetime: a day count and the time of day; tz is its UTC offset in hours
DateTime(day, hour, minute, second, microsecond, tz) ==
    [day |-> day, hour |-> hour, minute |-> minute, second |-> second,
     microsecond |-> microsecond, tz |-> tz]

\* whole seconds of the instant since day 0, 00:00 UTC
utc_seconds(dt) ==
    ((dt.day * 24 + dt.hour - dt.tz) * 60 + dt.minute) * 60 + dt.second

\* datetime comparison: by instant
dt_gt(a, b) ==
    \/ utc_seconds(a) > utc_seconds(b)
    \/ utc_seconds(a) = utc_seconds(b) /\ a.microsecond > b.microsecond
dt_ge(a, b) == dt_gt(a, b) \/ (utc_seconds(a) = utc_seconds(b) /\ a.microsecond = b.microsecond)

\* `dt + timedelta(hours=n)`
add_hours(dt, n) ==
    LET h == dt.hour + n
    IN  [dt EXCEPT !.hour = h % 24, !.day = dt.day + (h \div 24)]

\* `dt + timedelta(days=n)`
add_days(dt, n) == [dt EXCEPT !.day = dt.day + n]

\* `dt.astimezone(tz)`: the same instant on the clock of the other zone
astimezone(dt, tz) == [add_hours(dt, tz - dt.tz) EXCEPT !.tz = tz]

\* `if local >= aligned`
reached_strictly(local, aligned_dt) == dt_gt(local, aligned_dt)
reached(local, aligned_dt) == dt_ge(local, aligned_dt)

_next_top_of_hour(now) ==
    LET local == astimezone(now, BeijingOffsetHours)
        aligned_dt == [local EXCEPT !.minute = 0, !.second = 0, !.microsecond = 0]
    IN  astimezone(IF reached(local, aligned_dt) THEN add_hours(aligned_dt, 1)
                   ELSE aligned_dt, 0)

\* `text.split(sep)` for a one-character separator
RECURSIVE split(_, _)
split(text, sep) ==
    IF \A i \in 1..Len(text) : text[i] # sep
    THEN <<text>>
    ELSE LET i == CHOOSE j \in 1..Len(text) :
                      text[j] = sep /\ \A k \in 1..(j - 1) : text[k] # sep
         IN  <<SubSeq(text, 1, i - 1)>> \o split(SubSeq(text, i + 1, Len(text)), sep)

digit_value(c) ==
    CASE c = "0" -> 0 [] c = "1" -> 1 [] c = "2" -> 2 [] c = "3" -> 3 [] c = "4" -> 4
      [] c = "5" -> 5 [] c = "6" -> 6 [] c = "7" -> 7 [] c = "8" -> 8 [] c = "9" -> 9

RECURSIVE decimal(_)
decimal(digits) ==
    IF digits = <<>> THEN 0
    ELSE 10 * decimal(SubSeq(digits, 1, Len(digits) - 1)) + digit_value(digits[Len(digits)])

\* `int(x)`: surrounding whitespace, an optional sign, then digits; else ValueError
py_int(x) ==
    LET t == strip(x)
        signed == t # <<>> /\ t[1] \in {"+", "-"}
        digits == IF signed THEN Tail(t) ELSE t
    IN  IF digits # <<>> /\ \A i \in 1..Len(digits) : digits[i] \in DIGITS
        THEN [ok |-> TRUE,
              value |-> IF signed /\ t[1] = "-" THEN 0 - decimal(digits) ELSE decimal(digits)]
        ELSE [ok |-> FALSE, value |-> 0]

\* `max(lo, min(hi, x))`
clamp_none(lo, hi, x) == x
clamp(lo, hi, x) ==
    LET least == IF hi < x THEN hi ELSE x
    IN  IF lo > least THEN lo ELSE least

\* `hour, minute = map(int, report_time.split(":"))` with the clamping; any exception
\* gives 0, 0
parse_report_time(report_time) ==
    LET parts == split(report_time, ":")
    IN  IF Len(parts) # 2 THEN [hour |-> 0, minute |-> 0]
        ELSE LET hour == py_int(parts[1])
                 minute == py_int(parts[2])
             IN  IF hour.ok /\ minute.ok
                 THEN [hour |-> clamp(0, 23, hour.value), minute |-> clamp(0, 59, minute.value)]
                 ELSE [hour |-> 0, minute |-> 0]

_next_midnight(now, report_time) ==
    LET local == astimezone(now, BeijingOffsetHours)
        at == parse_report_time(report_time)
        aligned_dt == [local EXCEPT !.hour = at.hour, !.minute = at.minute,
                                    !.second = 0, !.microsecond = 0]
    IN  astimezone(IF reached(local, aligned_dt) THEN add_days(aligned_dt, 1)
                   ELSE aligned_dt, 0)

\* the instants that the schedulers ask about, in UTC
Instants ==
    {DateTime(d, h, m, sec, us, 0) :
        d \in 0..MaxDay, h \in 0..23, m \in {0, 29, 30, 59}, sec \in {0, 59},
        us \in {0, 999999}}

\* values of reports.daily_report_time, each with the time of day that it stands for
ReportTimes ==
    {[text |-> <<"0", "9", ":", "3", "0">>, hour |-> 9, minute |-> 30],
     [text |-> <<"9", ":", "5">>, hour |-> 9, minute |-> 5],
     [text |-> <<"0", "0", ":", "0", "0">>, hour |-> 0, minute |-> 0],
     [text |-> <<"2", "3", ":", "5", "9">>, hour |-> 23, minute |-> 59],
     [text |-> <<"2", "5", ":", "7", "0">>, hour |-> 23, minute |-> 59],
     [text |-> <<"-", "1", ":", "3", "0">>, hour |-> 0, minute |-> 30],
     [text |-> <<"9", ":", "-", "5">>, hour |-> 9, minute |-> 0],
     [text |-> <<"a", "b", ":", "c", "d">>, hour |-> 0, minute |-> 0],
     [text |-> <<>>, hour |-> 0, minute |-> 0],
     [text |-> <<"0", "9", ":", "3", "0", ":", "0", "0">>, hour |-> 0, minute |-> 0],
     [text |-> <<"0", "9", "3", "0">>, hour |-> 0, minute |-> 0],
     [text |-> <<"9", ":">>, hour |-> 0, minute |-> 0],
     [text |-> <<"1", "2", ":", "x">>, hour |-> 0, minute |-> 0],
     [text |-> <<" ", "9", " ", ":", "3", "0">>, hour |-> 9, minute |-> 30],
     [text |-> <<"+", "7", ":", "0", "5">>, hour |-> 7, minute |-> 5]}

NextRunCalls ==
    {[fn |-> "_next_top_of_hour", now |-> t, returned |-> FALSE, result |-> t] :
        t \in Instants}
    \cup {[fn |-> "_next_midnight", now |-> t, report_time |-> rt, returned |-> FALSE,
           result |-> t] : t \in Instants, rt \in ReportTimes}

NextTopOfHour ==
    /\ call.fn = "_next_top_of_hour" /\ ~call.returned
    /\ call' = [call EXCEPT !.returned = TRUE, !.result = _next_top_of_hour(call.now)]
    /\ UNCHANGED <<settingsVars, fetchVars, reports>>

NextMidnight ==
    /\ call.fn = "_next_midnight" /\ ~call.returned
    /\ call' = [call EXCEPT !.returned = TRUE,
                            !.result = _next_midnight(call.now, call.report_time.text)]
    /\ UNCHANGED <<settingsVars, fetchVars, reports>>

SpecNextRun == InitCalls(NextRunCalls) /\ [][NextTopOfHour \/ NextMidnight]_vars

\* on the clock of UTC+8 the datetime is hour:minute:00.000000
OnTheClock(dt, hour, minute) ==
    LET local == astimezone(dt, BeijingOffsetHours)
    IN  local.hour = hour /\ local.minute = minute /\ local.second = 0
        /\ local.microsecond = 0

\* C13: _next_top_of_hour(now) is an exact hour boundary of UTC+8, strictly later
\* than now and at most one hour later; for now on an hour boundary it is now + 1 h.
C13_NextTopOfHour ==
    call.fn = "_next_top_of_hour" /\ call.returned =>
        /\ \E h \in 0..23 : OnTheClock(call.result, h, 0)
        /\ dt_gt(call.result, call.now)
        /\ dt_ge(add_hours(call.now, 1), call.result)
        /\ ((\E h \in 0..23 : OnTheClock(call.now, h, 0))
              => call.result = add_hours(call.now, 1))

\* 14:00:00 of UTC+8 gives 15:00:00
C13_Witness ==
    /\ call.fn = "_next_top_of_hour" /\ call.returned
    /\ call.now = DateTime(0, 6, 0, 0, 0, 0)
    /\ call.result = DateTime(0, 7, 0, 0, 0, 0)

\* C14: _next_midnight(now, report_time) is strictly later than now, at most 24 h
\* later, and on time of day H:M of UTC+8, the clamped parse of report_time or 00:00:
\* today's H:M when now is before it, tomorrow's when now is at or past it.
C14_NextDailyRun ==
    call.fn = "_next_midnight" /\ call.returned =>
        LET local == astimezone(call.now, BeijingOffsetHours)
            today == [local EXCEPT !.hour = call.report_time.hour,
                                   !.minute = call.report_time.minute,
                                   !.second = 0, !.microsecond = 0]
        IN  /\ OnTheClock(call.result, call.report_time.hour, call.report_time.minute)
            /\ dt_gt(call.result, call.now)
            /\ dt_ge(add_days(call.now, 1), call.result)
            /\ astimezone(call.result, BeijingOffsetHours) =
                  (IF dt_gt(today, local) THEN today ELSE add_days(today, 1))

\* at 10:00 of UTC+8 the next run for "09:30" is 09:30 tomorrow
C14_Witness ==
    /\ call.fn = "_next_midnight" /\ call.returned
    /\ call.now = DateTime(0, 2, 0, 0, 0, 0)
    /\ call.report_time.text = <<"0", "9", ":", "3", "0">>
    /\ call.result = DateTime(1, 1, 30, 0, 0, 0)

-----------------------------------------------------------------------------
(* do_fetch_once: the keyword match of one entry *)

\* the longest fetch.filter_keywords list
MaxKeywords == 3

RECURSIVE ListsUpTo(_, _)
ListsUpTo(S, n) ==
    IF n = 0 THEN {<<>>}
    ELSE LET shorter == ListsUpTo(S, n - 1)
         IN  shorter \cup {Append(l, x) : l \in shorter, x \in S}

KeywordTexts ==
    {<<>>, <<" ">>, <<"a">>, <<"b">>, <<"a", "b">>, <<"b", "a">>, <<" ", "a">>}

MatchCalls ==
    {[fn |-> "keyword_match", raw_keywords |-> raw,
      entry |-> [NoEntry EXCEPT !.title = title, !.author = author, !.content = content],
      extracted_content |-> extracted,
      returned |-> FALSE, matched_keywords |-> <<>>, keywords_matched |-> FALSE] :
        raw \in ListsUpTo(KeywordTexts, MaxKeywords),
        title \in {<<>>, <<"a">>, <<"a", "b">>},
        author \in {<<>>, <<"b">>},
        content \in {<<>>, <<"b", "a">>},
        extracted \in {<<>>, <<"a">>}}

\* the keyword lines of do_fetch_once for one entry
KeywordMatch ==
    /\ call.fn = "keyword_match" /\ ~call.returned
    /\ LET keyword_terms == filter_keywords(call.raw_keywords)
           hay == haystack(call.entry, call.extracted_content)
       IN  call' = [call EXCEPT
                       !.returned = TRUE,
                       !.matched_keywords = matched_keywords(keyword_terms, hay),
                       !.keywords_matched = keywords_matched(keyword_terms, hay)]
    /\ UNCHANGED <<settingsVars, fetchVars, reports>>

SpecKeywords == InitCalls(MatchCalls) /\ [][KeywordMatch]_vars

\* text k occurs in text t as a literal substring
Occurs(k, t) == \E i \in 1..(Len(t) - Len(k) + 1) : SubSeq(t, i, i + Len(k) - 1) = k

\* the positions of the configured keywords that are not blank
Configured_at(raw) == {i \in 1..Len(raw) : strip(raw[i]) # <<>>}

\* C15: with a non-empty normalized keyword list, matched_keywords holds each
\* trimmed keyword that occurs in the title, author, content or extracted content
\* once, in configured order (first occurrence wins), and the entry matches iff the
\* list is non-empty; with no keyword configured the entry matches and the list is
\* empty.
C15_MatchedKeywords ==
    call.fn = "keyword_match" /\ call.returned =>
        LET raw == call.raw_keywords
            at == Configured_at(raw)
            parts == {call.entry.title, call.entry.author, call.entry.content,
                      call.extracted_content}
            found == {strip(raw[i]) : i \in {j \in at : \E t \in parts : Occurs(strip(raw[j]), t)}}
            first(k) == CHOOSE i \in at : strip(raw[i]) = k
                                          /\ \A j \in at : strip(raw[j]) = k => i <= j
            m == call.matched_keywords
        IN  IF at = {}
            THEN m = <<>> /\ call.keywords_matched
            ELSE /\ {m[i] : i \in 1..Len(m)} = found
                 /\ \A i, j \in 1..Len(m) : i < j => first(m[i]) < first(m[j])
                 /\ (call.keywords_matched <=> m # <<>>)

\* a repeated keyword is listed once, an absent one is not listed
C15_Witness ==
    /\ call.fn = "keyword_match" /\ call.returned
    /\ call.raw_keywords = <<<<"b">>, <<" ", "a">>, <<"b">>>>
    /\ call.entry.title = <<"a">> /\ call.entry.author = <<"b">>
    /\ call.matched_keywords = <<<<"b">>, <<"a">>>>
    /\ call.keywords_matched

-----------------------------------------------------------------------------
(* Claims about the entries and the failures of a fetch cycle *)

\* the steps of caller c on its current entry
EnrichStep(c) == cyc[c].pc = "enrich" /\ cyc'[c] # cyc[c]
PushStep(c) == cyc[c].pc = "push" /\ cyc'[c] # cyc[c]

CurKey(cy) == ArticleKey(CurFeed(cy), CurEntry(cy).uid)

\* C16: an entry that matches no keyword while filtering is active causes no AI
\* call and gets the fallback summary; it is inserted, and counted in new_items,
\* when its key is not stored; no article notice for it goes to Telegram or WeCom.
C16_UnmatchedStoredNotPushed ==
    [][\A c \in Callers :
          /\ EnrichStep(c) /\ ~cyc'[c].keywords_matched =>
                /\ filter_keywords(cyc[c].settings.fetch.filter_keywords) # <<>>
                /\ cyc'[c].ai_calls = cyc[c].ai_calls
                /\ cyc'[c].summary = "fallback"
                /\ cyc'[c].pc = "insert"
          /\ InsertStep(c) /\ ~cyc[c].keywords_matched
                /\ ~exists_article(articles, CurFeed(cyc[c]), CurEntry(cyc[c]).uid) =>
                /\ articles' = Append(articles, CurKey(cyc[c]))
                /\ cyc'[c].new_items = cyc[c].new_items + 1
          /\ PushStep(c) /\ ~cyc[c].keywords_matched => pushed' = pushed]_vars

\* a cycle stored the entry of f2, which matches no keyword, without AI call or notice
C16_Witness ==
    \E c \in Callers :
        /\ cyc[c].pc = "done"
        /\ cyc[c].settings.fetch.filter_keywords # <<>>
        /\ cyc[c].got = {ArticleKey("f2", "u1")}
        /\ cyc[c].ai_calls = 0
        /\ \A p \in Platforms : pushed[ArticleKey("f2", "u1")][p] = 0

\* the entries that count for a feed that returned n entries under the limit
Capped(n, per_feed_limit) ==
    LET limit == IF per_feed_limit < 1 THEN 1 ELSE per_feed_limit
    IN  IF n < limit THEN n ELSE limit

RECURSIVE CappedSum(_, _)
CappedSum(fetched, per_feed_limit) ==
    IF fetched = <<>> THEN 0
    ELSE (IF fetched[1] < 0 THEN 0 ELSE Capped(fetched[1], per_feed_limit))
         + CappedSum(Tail(fetched), per_feed_limit)

Failures(fetched) == Cardinality({i \in 1..Len(fetched) : fetched[i] < 0})

\* C17: a fetch_feed that raises is counted and the cycle goes on with the next
\* feed; without another fault the cycle ends with a FetchResponse whose
\* fetched_feeds is the number of configured feeds and whose processed_items is
\* the number of entries, after the per-feed limit, of the feeds that were fetched.
C17_FeedFailureCounted ==
    \A c \in Callers :
        LET cy == cyc[c]
        IN  /\ cy.pc # "crashed"
            /\ cy.feed_fetch_failed = Failures(cy.fetched)
            /\ cy.pc \in {"feed", "entry", "enrich", "insert", "prune", "push"} =>
                   Len(cy.fetched) = (IF cy.pc = "feed" THEN cy.fi - 1 ELSE cy.fi)
            /\ cy.pc \in {"feed", "summary", "done"} =>
                   cy.processed = CappedSum(cy.fetched, cy.settings.fetch.per_feed_limit)
            /\ cy.pc = "done" =>
                   /\ Len(cy.fetched) = Len(cy.settings.fetch.feeds)
                   /\ cy.response.fetched_feeds = Len(cy.settings.fetch.feeds)
                   /\ cy.response.processed_items =
                          CappedSum(cy.fetched, cy.settings.fetch.per_feed_limit)

\* the first feed raised, the second feed was processed and the response is there
C17_Witness ==
    \E c \in Callers :
        /\ cyc[c].pc = "done"
        /\ cyc[c].fetched = <<-1, 1>>
        /\ cyc[c].response.fetched_feeds = 2
        /\ cyc[c].response.processed_items = 1

\* a feed that returned more entries than the limit, after a feed that raised
C17_WitnessCapped ==
    \E c \in Callers :
        /\ cyc[c].pc = "done"
        /\ cyc[c].fetched = <<2, -1>>
        /\ cyc[c].response.processed_items = 1

\* C18: a storage failure while an entry is handled (in the dedup check, the
\* insert or the prune) never ends the invocation: it goes on with the next entry
\* or feed and only failed_items tells of the failure.
C18_StorageFailureCaught ==
    [][\A c \in Callers :
          cyc[c].pc \in {"entry", "insert", "prune"} /\ cyc'[c] # cyc[c] =>
              /\ cyc'[c].pc # "crashed"
              /\ cyc'[c].failed_items \in {cyc[c].failed_items, cyc[c].failed_items + 1}]_vars

\* C19: a push that fails on one platform, by returning false or by raising, for
\* an article notice or for the summary notice, never ends the invocation and
\* never keeps the notice that is due from the other platform: the WeCom notice is
\* still attempted, the row stays stored and counted, the FetchResponse is returned.
C19_PushFailureContained ==
    [][\A c \in Callers :
          /\ PushStep(c) =>
                /\ cyc'[c].pc # "crashed"
                /\ cyc'[c].new_items = cyc[c].new_items
                /\ articles' = articles
                /\ notice_to_wecom(cyc[c]) =>
                       pushed'[CurKey(cyc[c])]["wecom"] = pushed[CurKey(cyc[c])]["wecom"] + 1
          /\ cyc[c].pc = "summary" /\ cyc'[c] # cyc[c] =>
                /\ cyc'[c].pc = "done"
                /\ cyc'[c].response.new_items = cyc[c].new_items
                /\ summary_to_wecom(cyc[c].settings) => "wecom" \in cyc'[c].sent]_vars

-----------------------------------------------------------------------------
(* POST /api/reports/generate and DELETE /api/reports/{report_id} *)

\* the reports that the model lets the endpoint create
MaxReports == 2

\* `get_report(report_id)` when there is no such row
NoReport == [id |-> 0]

\* `now_local.replace(hour=0, minute=0, second=0, microsecond=0)`
replace_midnight(dt) ==
    [dt EXCEPT !.hour = 0, !.minute = 0, !.second = 0, !.microsecond = 0]

\* _manual_report_timeframe(report_type) at the instant now; ok is false for the
\* ValueError of an unsupported report type
_manual_report_timeframe(report_type, now) ==
    LET now_local == astimezone(now, BeijingOffsetHours)
        start_local == IF report_type = "daily" THEN replace_midnight(now_local)
                       ELSE add_hours(now_local, -1)
    IN  IF report_type \in {"daily", "hourly"}
        THEN [ok |-> TRUE, start_utc |-> astimezone(start_local, 0),
              end_utc |-> astimezone(now_local, 0)]
        ELSE [ok |-> FALSE, start_utc |-> now, end_utc |-> now]

\* the articles whose creation time falls in [start, end)
articles_between(created_at, start, end) ==
    {t \in created_at : dt_ge(t, start) /\ ~dt_ge(t, end)}

\* generate_report with start_override and end_override: no article in the
\* window, or a summarization that the service gives up on, yields no id (0) and
\* no row; otherwise the report is persisted and its id returned
run_report(table, report_type, created_at, start, end, fatal) ==
    LET found == articles_between(created_at, start, end)
        id == table.last_id + 1
        row == [id |-> id, report_type |-> report_type, timeframe_start |-> start,
                timeframe_end |-> end, article_count |-> Cardinality(found)]
    IN  IF found = {} \/ fatal
        THEN [report_id |-> 0, table |-> table]
        ELSE [report_id |-> id,
              table |-> [rows |-> table.rows \cup {row}, last_id |-> id]]

get_report(table, report_id) ==
    IF \E r \in table.rows : r.id = report_id
    THEN CHOOSE r \in table.rows : r.id = report_id
    ELSE NoReport

delete_report(table, report_id) ==
    [table EXCEPT !.rows = {r \in table.rows : r.id # report_id}]

\* the end of api_generate_report: the report, or 404 when it is not found
report_response_found(report) == [status |-> 200, report |-> report]
report_response(report) ==
    IF report = NoReport THEN [status |-> 404, report |-> NoReport]
    ELSE [status |-> 200, report |-> report]

\* the instants of the requests and the creation times of the articles, in UTC;
\* 16:00 UTC is midnight on the clock of UTC+8
ReportNows ==
    {DateTime(0, 15, 59, 59, 999999, 0), DateTime(0, 16, 0, 0, 0, 0),
     DateTime(0, 16, 30, 0, 0, 0), DateTime(1, 3, 0, 0, 0, 0)}

ArticleTimes ==
    {DateTime(0, 15, 30, 0, 0, 0), DateTime(0, 16, 0, 0, 0, 0),
     DateTime(1, 2, 30, 0, 0, 0)}

\* report_type of the request: the two supported types and another one
RequestedTypes == {"daily", "hourly", "weekly"}

\* the request arrives: load_settings, the manual timeframe, the clients
GenerateReceive(report_type, now) ==
    /\ call.fn = "none" \/ (call.fn = "api_generate_report" /\ call.pc = "done")
    /\ reports.last_id < MaxReports
    /\ LET timeframe == _manual_report_timeframe(report_type, now)
       IN  call' = [fn |-> "api_generate_report", report_type |-> report_type,
                    now |-> now, start_utc |-> timeframe.start_utc,
                    end_utc |-> timeframe.end_utc, created_at |-> {},
                    report_id |-> 0,
                    pc |-> IF timeframe.ok THEN "run" ELSE "done",
                    response |-> IF timeframe.ok THEN NoDoc
                                 ELSE [status |-> 500, report |-> NoReport]]
    /\ UNCHANGED <<settingsVars, fetchVars, reports>>

\* `report_id = run_report(...)`; without an id the response is 400
GenerateRun(created_at, fatal) ==
    /\ call.fn = "api_generate_report" /\ call.pc = "run"
    /\ LET res == run_report(reports, call.report_type, created_at, call.start_utc,
                             call.end_utc, fatal)
       IN  /\ reports' = res.table
           /\ call' = [call EXCEPT
                          !.created_at = created_at,
                          !.report_id = res.report_id,
                          !.pc = IF res.report_id = 0 THEN "done" ELSE "get",
                          !.response = IF res.report_id = 0
                                       THEN [status |-> 400, report |-> NoReport]
                                       ELSE NoDoc]
    /\ UNCHANGED <<settingsVars, fetchVars>>

\* `report = get_report(report_id)` and the response
GenerateRespond ==
    /\ call.fn = "api_generate_report" /\ call.pc = "get"
    /\ call' = [call EXCEPT !.pc = "done",
                            !.response = report_response(get_report(reports, call.report_id))]
    /\ UNCHANGED <<settingsVars, fetchVars, reports>>

\* api_delete_report(report_id), from another client
DeleteReport(report_id) ==
    /\ reports' = delete_report(reports, report_id)
    /\ UNCHANGED <<settingsVars, fetchVars, call>>

NextReports ==
    \/ \E report_type \in RequestedTypes, now \in ReportNows : GenerateReceive(report_type, now)
    \/ \E created_at \in SUBSET ArticleTimes, fatal \in BOOLEAN : GenerateRun(created_at, fatal)
    \/ GenerateRespond
    \/ \E report_id \in 1..MaxReports : DeleteReport(report_id)

SpecReports == InitCalls({NoCall}) /\ [][NextReports]_vars

\* instant a is before instant b
Before(a, b) ==
    \/ utc_seconds(a) < utc_seconds(b)
    \/ utc_seconds(a) = utc_seconds(b) /\ a.microsecond < b.microsecond

\* no article was created in the manual window of the request
EmptyWindow(rq, created_at) ==
    LET local == astimezone(rq.now, BeijingOffsetHours)
    IN  \A t \in created_at :
           \/ ~Before(t, rq.now)
           \/ IF rq.report_type = "daily"
              THEN Before(t, DateTime(local.day, 0, 0, 0, 0, BeijingOffsetHours))
              ELSE utc_seconds(rq.now) - utc_seconds(t) > 3600
                   \/ (utc_seconds(rq.now) - utc_seconds(t) = 3600
                       /\ t.microsecond < rq.now.microsecond)

\* C20: a manual window without articles yields no report id, a 400 response and
\* no new Report row; with an id the endpoint returns the persisted report, or 404
\* when the report of that id is not found any more.
C20_GenerateReport ==
    [][/\ call.fn = "api_generate_report" /\ call.pc = "run" /\ call' # call =>
             /\ EmptyWindow(call, call'.created_at) =>
                   /\ call'.report_id = 0
                   /\ call'.response.status = 400
                   /\ reports' = reports
             /\ call'.report_id = 0 =>
                   call'.pc = "done" /\ call'.response.status = 400 /\ reports' = reports
             /\ call'.report_id # 0 =>
                   /\ call'.pc = "get"
                   /\ \E r \in reports'.rows \ reports.rows : r.id = call'.report_id
       /\ call.fn = "api_generate_report" /\ call.pc = "get" /\ call' # call =>
             IF \E r \in reports.rows : r.id = call.report_id
             THEN /\ call'.response.status = 200
                  /\ call'.response.report \in reports.rows
                  /\ call'.response.report.id = call.report_id
             ELSE call'.response.status = 404]_vars

\* articles exist, none in the window of the daily report asked for at midnight
C20_Witness ==
    /\ call.fn = "api_generate_report" /\ call.pc = "done"
    /\ call.report_type = "daily"
    /\ call.created_at = ArticleTimes
    /\ call.response.status = 400
    /\ reports = NoRows

\* the report was deleted between its generation and the lookup
C20_WitnessNotFound ==
    /\ call.fn = "api_generate_report" /\ call.pc = "done"
    /\ call.report_id # 0
    /\ call.response.status = 404

-----------------------------------------------------------------------------
(* POST /api/articles/{article_id}/push *)

\* one attempt of api_push_article: send_message returned true ("ok") or false
\* ("fail"), or the formatting or the send raised ("raise")
push_result(platform, outcome) ==
    [platform |-> platform, success |-> outcome = "ok",
     message |-> CASE outcome = "ok" -> "pushed"
                   [] outcome = "fail" -> "failed"
                   [] OTHER -> "exception"]

\* api_push_article(article_id, req): the response and the platforms that a send
\* was attempted on, in order; found: get_article returned the article
api_push_article(found, settings, platforms, tg_outcome, wecom_outcome) ==
    LET to_telegram == /\ "telegram" \in Range(platforms)
                       /\ has_telegram_client(settings)
                       /\ settings.telegram.enabled
        to_wecom == /\ "wecom" \in Range(platforms)
                    /\ has_wecom_client(settings)
                    /\ settings.wecom.enabled
        first == IF to_telegram THEN <<push_result("telegram", tg_outcome)>> ELSE <<>>
        second == IF to_wecom THEN <<push_result("wecom", wecom_outcome)>> ELSE <<>>
        attempts == (IF to_telegram THEN <<"telegram">> ELSE <<>>)
                    \o (IF to_wecom THEN <<"wecom">> ELSE <<>>)
    IN  IF ~found
        THEN [status |-> 404, results |-> <<>>, attempts |-> <<>>]
        ELSE [status |-> 200, results |-> first \o second, attempts |-> attempts]

\* the settings that decide which clients are built
PushStores ==
    {[AppSettings EXCEPT
         !.telegram.enabled = te, !.telegram.bot_token = tt, !.telegram.chat_id = tc,
         !.telegram.push_mode = "report_only",
         !.wecom.enabled = we, !.wecom.webhook_key = wk] :
        te \in BOOLEAN, tt \in {"", "t1"}, tc \in {"", "chat"},
        we \in BOOLEAN, wk \in {"", "w1"}}

\* values of req.platforms
PlatformLists ==
    {<<>>, <<"telegram">>, <<"wecom">>, <<"telegram", "wecom">>,
     <<"wecom", "telegram">>, <<"telegram", "telegram">>, <<"slack">>}

PushArticleCalls ==
    {[fn |-> "api_push_article", found |-> f, settings |-> st, platforms |-> ps,
      tg_outcome |-> t, wecom_outcome |-> w, returned |-> FALSE, result |-> NoDoc] :
        f \in BOOLEAN, st \in PushStores, ps \in PlatformLists,
        t \in SendResults, w \in SendResults}

PushArticle ==
    /\ call.fn = "api_push_article" /\ ~call.returned
    /\ call' = [call EXCEPT
                   !.returned = TRUE,
                   !.result = api_push_article(call.found, call.settings, call.platforms,
                                               call.tg_outcome, call.wecom_outcome)]
    /\ UNCHANGED <<settingsVars, fetchVars, reports>>

SpecPushArticle == InitCalls(PushArticleCalls) /\ [][PushArticle]_vars

\* the platform is requested, enabled and has its credentials
Due(cl, platform) ==
    /\ \E i \in 1..Len(cl.platforms) : cl.platforms[i] = platform
    /\ IF platform = "telegram"
       THEN /\ cl.settings.telegram.enabled
            /\ cl.settings.telegram.bot_token # ""
            /\ cl.settings.telegram.chat_id # ""
       ELSE /\ cl.settings.wecom.enabled
            /\ cl.settings.wecom.webhook_key # ""

\* the entries of the results list for the platform
EntriesOf(results, platform) == {i \in 1..Len(results) : results[i].platform = platform}

\* C21: without the article the response is 404 and nothing is sent; otherwise
\* the results hold exactly one entry per platform that is requested, enabled and
\* has its client, Telegram before WeCom, and none for another platform; a
\* Telegram attempt that fails or raises is reported with success false and the
\* WeCom attempt is still made.
C21_PushArticle ==
    call.fn = "api_push_article" /\ call.returned =>
        LET res == call.result
        IN  IF ~call.found
            THEN res.status = 404 /\ res.attempts = <<>>
            ELSE /\ res.status = 200
                 /\ \A p \in Platforms :
                       /\ Cardinality(EntriesOf(res.results, p)) = (IF Due(call, p) THEN 1 ELSE 0)
                       /\ (\E i \in 1..Len(res.attempts) : res.attempts[i] = p) <=> Due(call, p)
                 /\ \A i \in 1..Len(res.results) : res.results[i].platform \in Platforms
                 /\ Len(res.results) = 2 => res.results[1].platform = "telegram"
                 /\ Due(call, "telegram") =>
                       res.results[1].success = (call.tg_outcome = "ok")
                 /\ Due(call, "wecom") =>
                       res.results[Len(res.results)].success = (call.wecom_outcome = "ok")

\* Telegram raised, and the WeCom attempt was made and reported after it
C21_Witness ==
    /\ call.fn = "api_push_article" /\ call.returned /\ call.found
    /\ call.tg_outcome = "raise" /\ call.wecom_outcome = "ok"
    /\ Len(call.result.results) = 2
    /\ ~call.result.results[1].success
    /\ call.result.results[2] = push_result("wecom", "ok")

-----------------------------------------------------------------------------
(* Claims about the article notices and the counters of a fetch cycle *)

\* the client of the platform is built and the platform takes article notices
ArticlePlatform(settings, platform) ==
    IF platform = "telegram"
    THEN /\ settings.telegram.enabled
         /\ settings.telegram.bot_token # "" /\ settings.telegram.chat_id # ""
         /\ settings.telegram.push_mode \in {"all", "article_only"}
    ELSE /\ settings.wecom.enabled /\ settings.wecom.webhook_key # ""
         /\ settings.wecom.push_mode \in {"all", "article_only"}

\* C22: an article notice goes to a platform for an entry only from the cycle
\* whose insert_article returned an id for the entry, only for an entry that
\* matched the keywords, and only to a platform whose client is built and whose
\* push_mode is "all" or "article_only".
C22_NoticeOnlyWhenDue ==
    [][\A k \in Keys, p \in Platforms :
          pushed'[k][p] # pushed[k][p] =>
              /\ pushed'[k][p] = pushed[k][p] + 1
              /\ \E c \in Callers :
                    /\ PushStep(c)
                    /\ CurKey(cyc[c]) = k
                    /\ k \in cyc[c].got
                    /\ inserts[k] > 0
                    /\ cyc[c].keywords_matched
                    /\ ArticlePlatform(cyc[c].settings, p)]_vars

\* after a forced re-fetch of the stored entries: one insert and one WeCom notice
\* for the entry, and no Telegram notice in "report_only" mode
C22_Witness ==
    \E c \in Callers :
        /\ cyc[c].pc = "done"
        /\ cyc[c].history = <<FALSE, TRUE>>
        /\ cyc[c].fetched[1] = 2
        /\ cyc[c].settings.telegram.push_mode = "report_only"
        /\ inserts[ArticleKey("f1", "u1")] = 1
        /\ pushed[ArticleKey("f1", "u1")] = [p \in Platforms |->
                                                IF p = "wecom" THEN 1 ELSE 0]

-----------------------------------------------------------------------------
(* Claims about the report schedulers *)

\* C23: whenever no reconfiguration is under way, the registered daily report
\* scheduler computes its next run with the daily_report_time of the stored
\* settings.
C23_DailyTimeFollowsSettings ==
    (phase = "running"
        /\ \A r \in Workers : req[r].pc \in {"idle", "check", "save", "respond"}
        /\ "daily" \in DOMAIN _report_schedulers)
    => aligned[_report_schedulers["daily"]].report_time = stored.reports.daily_report_time

\* every request has returned
Quiet == \A r \in Workers : req[r].pc = "idle"

\* C24: with two PUT /api/settings requests at the same time no started report
\* scheduler is ever outside the registry, no request fails because of the other,
\* and once all have returned the schedulers are those of the stored settings.
C24_AtomicReconfiguration ==
    phase = "running" =>
        /\ \A i \in DOMAIN aligned :
              aligned[i].started => \E t \in DOMAIN _report_schedulers :
                                        _report_schedulers[t] = i
        /\ \A r \in Workers : req[r].status # 500
        /\ Quiet => Configured(stored)

-----------------------------------------------------------------------------
(* The per-feed cap of do_fetch_once *)

\* the entries that a feed returns in one fetch, at most
MaxEntries == 3

\* the feeds' answers: entries told apart by uid, with timestamps that tie
EntryLists ==
    UNION {{[i \in 1..n |-> [uid |-> i, sort_ts |-> ts[i]]] : ts \in [1..n -> 0..2]} :
              n \in 0..MaxEntries}

CapCalls ==
    {[fn |-> "capped_entries", entries |-> es, per_feed_limit |-> limit,
      returned |-> FALSE, result |-> <<>>] :
        es \in EntryLists, limit \in -1..(MaxEntries + 1)}

\* the sort and the cut of the entries of one fetched feed
CapEntries ==
    /\ call.fn = "capped_entries" /\ ~call.returned
    /\ call' = [call EXCEPT
                   !.returned = TRUE,
                   !.result = capped_entries(
                                 call.entries,
                                 [AppSettings EXCEPT
                                     !.fetch.per_feed_limit = call.per_feed_limit])]
    /\ UNCHANGED <<settingsVars, fetchVars, reports>>

SpecCap == InitCalls(CapCalls) /\ [][CapEntries]_vars

\* max(1, per_feed_limit)
EffectiveLimit(per_feed_limit) == IF per_feed_limit < 1 THEN 1 ELSE per_feed_limit

\* C25: of a fetched feed at most max(1, per_feed_limit) entries are processed;
\* when the feed returned more, they are exactly that many of its entries, those
\* with the greatest sort timestamps, newest first.
C25_NewestWithinLimit ==
    call.fn = "capped_entries" /\ call.returned =>
        LET limit == EffectiveLimit(call.per_feed_limit)
            out == call.result
            kept == {out[i] : i \in 1..Len(out)}
            all == {call.entries[i] : i \in 1..Len(call.entries)}
        IN  /\ Len(out) <= limit
            /\ kept \subseteq all
            /\ Cardinality(kept) = Len(out)
            /\ Len(call.entries) <= limit => kept = all
            /\ Len(call.entries) > limit =>
                  /\ Len(out) = limit
                  /\ \A i, j \in 1..Len(out) : i < j => out[i].sort_ts >= out[j].sort_ts
                  /\ \A x \in kept, y \in all \ kept : x.sort_ts >= y.sort_ts

\* three entries, oldest first, under a limit of 0: the newest one is processed
C25_Witness ==
    /\ call.fn = "capped_entries" /\ call.returned
    /\ call.per_feed_limit = 0
    /\ Len(call.entries) = 3
    /\ call.entries[3].sort_ts = 2 /\ call.entries[1].sort_ts = 0
    /\ call.result = <<call.entries[3]>>

-----------------------------------------------------------------------------
(* The task of the report schedulers: _run_report *)

\* the ticks of the report schedulers that the model follows
MaxTicks == 2

\* the window that generate_report derives for a tick, and articles in it
TickStart == DateTime(0, 15, 0, 0, 0, 0)
TickEnd == DateTime(0, 16, 0, 0, 0, 0)
TickArticles == {{}, {DateTime(0, 15, 30, 0, 0, 0)}}

\* _run_report(report_type) on the settings that load_settings returns: whether
\* run_report is called, and the reports table after it
_run_report_unchecked(table, report_type, settings, created_at, fatal) ==
    [called |-> TRUE,
     table |-> run_report(table, report_type, created_at, TickStart, TickEnd, fatal).table]
_run_report(table, report_type, settings, created_at, fatal) ==
    IF report_type = "daily" /\ ~settings.reports.daily_enabled
    THEN [called |-> FALSE, table |-> table]
    ELSE IF report_type = "hourly" /\ ~settings.reports.hourly_enabled
    THEN [called |-> FALSE, table |-> table]
    ELSE [called |-> TRUE,
          table |-> run_report(table, report_type, created_at, TickStart, TickEnd,
                               fatal).table]

\* the thread of started scheduler i runs its task
ReportTick(i, created_at, fatal) ==
    /\ i \in DOMAIN aligned /\ aligned[i].started
    /\ reports.last_id < MaxReports
    /\ LET n == IF call.fn = "_run_report" THEN call.n ELSE 0
           res == _run_report(reports, aligned[i].rtype, load_settings(stored),
                              created_at, fatal)
       IN  /\ n < MaxTicks
           /\ call' = [fn |-> "_run_report", n |-> n + 1,
                       report_type |-> aligned[i].rtype, called |-> res.called]
           /\ reports' = res.table
    /\ UNCHANGED <<settingsVars, fetchVars>>

\* requests that switch the report types on and off
TickRequests ==
    {rq \in ScheduleRequests : /\ rq.settings.reports.daily_report_time = T0000
                               /\ rq.settings.fetch.interval_minutes = 5
                               /\ rq.password = PW1234}

SpecTicks ==
    /\ InitSettings(ScheduleStores)
    /\ [][\/ NextSettings(TickRequests, {1})
          \/ \E i \in 1..MaxAligned, created_at \in TickArticles, fatal \in BOOLEAN :
                ReportTick(i, created_at, fatal)]_vars

\* the flag of the report type in the settings document
TypeEnabled(d, report_type) ==
    IF report_type = "daily" THEN d.reports.daily_enabled ELSE d.reports.hourly_enabled

\* C26: a tick of a report scheduler whose type is disabled in the settings
\* stored at that moment does not call the report service: no report is
\* generated and nothing is pushed, also when the scheduler is not stopped yet.
C26_DisabledTickGeneratesNothing ==
    [][call'.fn = "_run_report" /\ call' # call =>
          /\ ~TypeEnabled(stored, call'.report_type) =>
                ~call'.called /\ reports' = reports
          /\ \A r \in reports'.rows \ reports.rows :
                r.report_type = call'.report_type /\ TypeEnabled(stored, r.report_type)]_vars

\* a tick while the hourly scheduler still runs and hourly reports are disabled
C26_Witness ==
    /\ call.fn = "_run_report" /\ ~call.called
    /\ call.report_type = "hourly"
    /\ ~stored.reports.hourly_enabled
    /\ \E i \in DOMAIN aligned : aligned[i].started /\ aligned[i].rtype = "hourly"
    /\ reports = NoRows

\* C27: at the end of a cycle every processed entry is counted in at most one of
\* new_items, duplicates and failed_items; duplicates is 0 under force; new_items
\* of the response is the number of inserts of the cycle that returned an id.
C27_CountersAccountEntries ==
    \A c \in Callers :
        cyc[c].pc = "done" =>
            /\ cyc[c].new_items + cyc[c].duplicates + cyc[c].failed_items
                  <= cyc[c].response.processed_items
            /\ cyc[c].force => cyc[c].duplicates = 0
            /\ cyc[c].response.new_items = Cardinality(cyc[c].got)

=============================================================================
